---------------------------- MODULE Spec2Model ----------------------------
(***************************************************************************)
(* A model of the EdgeLake MCP server core:                                *)
(*   - the SSE session transport (edge_lake/mcp/transport/sse_handler.py): *)
(*     Spec for requests and delivery, SpecSweep for the liveness sweep;   *)
(*     SpecDrain for the sweep with the session threads scheduled;         *)
(*     SpecLock for the registry lock, block by block;                     *)
(*     SpecKeepalive for the sweep on sessions whose clients are silent;   *)
(*     SpecTool for a request whose processing calls the executor bridge;  *)
(*   - the executor bridge (edge_lake/mcp_server/core/direct_client.py):   *)
(*     SpecBridge for execute_command, its timer and the worker pool,      *)
(*     SpecClose for the bridge with close() and its join,                 *)
(*     SpecSync for one _sync_execute call and _extract_result;            *)
(*   - the query pipeline (edge_lake/mcp_server/core/query_executor.py):   *)
(*     SpecMode for auto mode selection, SpecStream for the streaming and  *)
(*     the batch executor, SpecProtocol for both over given fetch outcomes,*)
(*     SpecPull for the streaming generator and a consumer that may stop,  *)
(*     SpecQuery for execute_query from the validation                     *)
(*     to the end of the executor;                                         *)
(*   - the JSON-RPC router (edge_lake/mcp/server/mcp_server.py):           *)
(*     SpecRouter for one process_message call.                            *)
(* Each specification has its own Next and leaves the variables of the     *)
(* other subsystems in their initial state (SpecTool runs the transport    *)
(* and the bridge together).                                               *)
(***************************************************************************)
EXTENDS Integers, Sequences, FiniteSets, TLC

(***************************************************************************)
(* Bounds of the model                                                     *)
(***************************************************************************)
MaxSessions == 2      \* sessions opened in one run
MaxRequests == 2      \* POST /mcp/messages requests in one run
SweepRequests == 1    \* of them beside the liveness sweep
MaxCalls == 3         \* calls and events from outside in one run: sessions opened,
                      \* requests, API calls, clock advances, client disconnects

MaxBridgeCalls == 2   \* execute_command calls in one run
max_workers == 1      \* the size the executor is constructed with (10 unless given)
MaxTimeout == 2       \* the longest timeout a call is given, in clock steps
MaxTime == MaxTimeout + 1  \* the event loop's clock stops here

MaxBufLen == 3        \* the largest io_buff_size, in bytes

MaxRows == 5          \* the rows a statement selects
MaxFetch == 3         \* the largest fetch_size
MaxRounds == 11       \* the rounds of the liveness sweep in one run
MaxFetches == 3       \* the fetch outcomes a run is given

(***************************************************************************)
(* Program constants                                                       *)
(***************************************************************************)
keepalive_interval == 30
connection_timeout == 300

Tokens == 1..MaxSessions
Requests == 1..MaxRequests
UnknownToken == 0          \* a token no session was ever given
NoToken == -1              \* a path without the session segment
PathTokens == Tokens \cup {UnknownToken, NoToken}
Bodies == {"empty", "badjson", "nonobject", "object"}
Outcomes == {"result", "raised"}   \* mcp_server.process_message returns or raises
TickSteps == {keepalive_interval, connection_timeout + 1}
NoMsg == [id |-> -1, event |-> "none", data |-> -1]

VARIABLES
  now,              \* time.time()
  calls,            \* calls and events from outside so far
  running,          \* SSETransport.running
  connections,      \* SSETransport.connections: the registered tokens, in insertion order
  connected,        \* SSEConnection.connected, per token
  message_counter,  \* SSEConnection.message_counter
  message_queue,    \* SSEConnection.message_queue
  last_activity,    \* SSEConnection.last_activity
  wfile,            \* what was written on the session's handler.wfile, in order
  wfile_ok,         \* whether a write on the session's handler.wfile succeeds
  sse,              \* per token: the handle_sse_endpoint thread (pc, msg)
  rq,               \* per request: the POST handler and its process() thread
  ka,               \* the keepalive thread
  snd,              \* a caller of SSETransport.send_event
  enqueued,         \* history: the envelopes put on each queue, in put order
  evicted           \* history: the tokens the sweep closed for idleness, and the sweep's time

sseVars == <<now, calls, running, connections, connected, message_counter,
             message_queue, last_activity, wfile, wfile_ok, sse, rq, ka, snd,
             enqueued, evicted>>

VARIABLES
  loop_time,        \* the event loop's clock, loop.time()
  ex,               \* per execute_command call: the awaiting caller and its work item
  work_queue,       \* the executor's work queue: the calls submitted and not yet taken
  executor_shutdown, \* the ThreadPoolExecutor was shut down, by close()
  close_returned    \* close() has returned

bridgeVars == <<loop_time, ex, work_queue, executor_shutdown, close_returned>>

VARIABLES
  se_pc,            \* where one _sync_execute call is
  io_buff,          \* the buffer it hands to process_cmd, as bytes
  ret_val,          \* what process_cmd returned
  stdout_text,      \* what process_cmd wrote on the output stream meanwhile, as code points
  result,           \* what _sync_execute returned or raised
  process_cmd_calls \* history: the calls of member_cmd.process_cmd so far

syncVars == <<se_pc, io_buff, ret_val, stdout_text, result, process_cmd_calls>>

VARIABLES
  sql_query,        \* the SQL text execute_query was given, as code points
  mode              \* the mode auto selection gave it

modeVars == <<sql_query, mode>>

VARIABLES
  st_pc,            \* where one execute_streaming generator is
  result_rows,      \* the rows the statement selects, in order
  cursor,           \* the cursor: its state, the rows fetched so far, the times it was closed
  fetch_size,       \* execute_streaming's fetch_size
  get_next,         \* what the last process_fetch_rows returned
  rows_data,
  total_rows,       \* execute_streaming's total_rows
  units,            \* what the generator has yielded, in order
  exec_error,       \* the exception the executor is leaving with
  bt_pc,            \* where one execute_batch call is
  all_rows,         \* execute_batch's all_rows
  batch_result      \* what execute_batch returned

VARIABLES
  rt_pc,            \* where one process_message call is
  rt_server,        \* MCPServer.server is set
  rt_message,       \* the JSON-RPC message of the call
  rt_response       \* what the call came to: the payload returned, or an exception

routerVars == <<rt_pc, rt_server, rt_message, rt_response>>

VARIABLES
  qx_pc,             \* where one QueryExecutor.execute_query call is
  validation_result, \* what validate_query came to
  query_error        \* the exception execute_query raised itself

queryVars == <<qx_pc, validation_result, query_error>>

VARIABLES
  connection_lock,   \* SSETransport.connection_lock: the thread that holds it
  th                 \* per thread of the transport: where it is, block by block

lockVars == <<connection_lock, th>>

VARIABLES
  fetch_outcomes,    \* what the cursor's fetch calls come to, one after the other
  sx,                \* execute_streaming run over them
  bx                 \* execute_batch run over them

protocolVars == <<fetch_outcomes, sx, bx>>

\* the locals of execute_batch, and those of execute_streaming
batchVars == <<bt_pc, all_rows, batch_result>>
genVars == <<st_pc, total_rows, units>>
streamVars == <<st_pc, result_rows, cursor, fetch_size, get_next, rows_data, total_rows, units,
                exec_error, bt_pc, all_rows, batch_result>>

\* what the transport's steps leave alone
offSse == <<bridgeVars, syncVars, modeVars, streamVars, routerVars, queryVars, lockVars, protocolVars>>
\* what the bridge's steps leave alone
offBridge == <<sseVars, syncVars, modeVars, streamVars, routerVars, queryVars, lockVars, protocolVars>>
\* what the steps of one _sync_execute call leave alone
offSync == <<sseVars, bridgeVars, modeVars, streamVars, routerVars, queryVars, lockVars, protocolVars>>
\* what mode selection leaves alone
offMode == <<sseVars, bridgeVars, syncVars, streamVars, routerVars, queryVars, lockVars, protocolVars>>
\* what the steps of one execute_streaming generator leave alone
offStream == <<sseVars, bridgeVars, syncVars, modeVars, routerVars, queryVars, lockVars, protocolVars>>
\* what execute_query itself leaves alone, up to where it hands over to an executor
offQuery == <<sseVars, bridgeVars, syncVars, routerVars, lockVars, protocolVars>>
\* what one process_message call leaves alone
offRouter == <<sseVars, bridgeVars, syncVars, modeVars, streamVars, queryVars, lockVars, protocolVars>>

\* what the steps around the registry lock leave alone
offLock == <<bridgeVars, syncVars, modeVars, streamVars, routerVars, queryVars, protocolVars>>
lockQuiet == <<now, message_counter, message_queue, sse, rq, ka, snd, enqueued, evicted>>

\* what the two executors run over given fetch outcomes leave alone
offProtocol == <<sseVars, bridgeVars, syncVars, modeVars, streamVars, routerVars, queryVars,
                 lockVars>>

vars == <<sseVars, bridgeVars, syncVars, modeVars, streamVars, routerVars, queryVars, lockVars, protocolVars>>

(***************************************************************************)
(* Helpers                                                                 *)
(***************************************************************************)
Remove(seq, x) == SelectSeq(seq, LAMBDA y : y # x)
Registered(s) == \E i \in 1..Len(connections) : connections[i] = s
NextToken == Cardinality({s \in Tokens : sse[s].pc # "none"}) + 1

\* the three wfile.write calls and the flush of SSEConnection.send_event
Event(ev, data, id, by) == [kind |-> "event", event |-> ev, data |-> data, id |-> id, by |-> by]
Keepalive(by) == [kind |-> "keepalive", event |-> "none", data |-> -1, id |-> -1, by |-> by]

\* a send_event that lets the exception of a failed write out: the liveness
\* flag keeps its value
SendEvent_Raising(s, ev, data, id, by) ==
  IF ~connected[s]
  THEN UNCHANGED <<connected, wfile, last_activity>>
  ELSE IF wfile_ok[s]
       THEN /\ wfile' = [wfile EXCEPT ![s] = Append(@, Event(ev, data, id, by))]
            /\ last_activity' = [last_activity EXCEPT ![s] = now]
            /\ UNCHANGED connected
       ELSE UNCHANGED <<connected, wfile, last_activity>>

\* SSEConnection.send_event from its liveness test on, the event id given
SendEvent(s, ev, data, id, by) ==
  IF ~connected[s]
  THEN UNCHANGED <<connected, wfile, last_activity>>
  ELSE IF wfile_ok[s]
       THEN /\ wfile' = [wfile EXCEPT ![s] = Append(@, Event(ev, data, id, by))]
            /\ last_activity' = [last_activity EXCEPT ![s] = now]
            /\ UNCHANGED connected
       ELSE /\ connected' = [connected EXCEPT ![s] = FALSE]
            /\ UNCHANGED <<wfile, last_activity>>

(***************************************************************************)
(* MCPServer.process_message: the JSON-RPC router                          *)
(***************************************************************************)
\* Python values: None, numbers, strings and lists; a dict is a function on its keys
None == [none |-> TRUE]
Num(n) == [num |-> n]
Str(s) == [str |-> s]
List(values) == [arr |-> values]
EmptyDict == [key \in {} |-> None]
IsDict(v) == DOMAIN v \cap {"none", "num", "str", "arr"} = {}

\* dict.get(key, default)
get(d, key, default) == IF key \in DOMAIN d THEN d[key] ELSE default

\* a value inside an f-string
Format(v) == IF "str" \in DOMAIN v THEN v.str ELSE IF "none" \in DOMAIN v THEN "None" ELSE "?"

\* what a called function comes to
Return(value) == [kind |-> "return", value |-> value]
Raise(text) == [kind |-> "raise", value |-> text]

\* the ids, methods and params a client sends; Absent is a key that is not there
Absent == [absent |-> TRUE]
Ids == {Absent, None, Num(1), Str("a")}
Methods == {Absent, Str("tools/list"), Str("tools/call"), Str("initialize"),
            Str("notifications/initialized")}
Params == {Absent, None, [name |-> Str("node_status")]}
Keys(id, method, params) ==
  {key \in {"id", "method", "params"} :
     \/ key = "id" /\ id # Absent
     \/ key = "method" /\ method # Absent
     \/ key = "params" /\ params # Absent}
Dict(id, method, params) ==
  [key \in Keys(id, method, params) |->
     IF key = "id" THEN id ELSE IF key = "method" THEN method ELSE params]
Messages == {Dict(id, method, params) : id \in Ids, method \in Methods, params \in Params}

\* what asyncio.run(self._call_list_tools()) or asyncio.run(self._call_tool(..))
\* comes to: the tools or the content, or the exception of a tool
HandlerOutcomes == {Return(List(<<Str("node_status")>>)), Raise("tool failed")}
NoAttribute == "object has no attribute 'get'"

\* the two shapes of a JSON-RPC response
ResultResponse(id, value) == [jsonrpc |-> "2.0", id |-> id, result |-> value]
ErrorResponse(id, code, text) ==
  [jsonrpc |-> "2.0", id |-> id, error |-> [code |-> code, message |-> text]]

\* mcp_server.py lines 213-244: the try block of process_message
Route(message, handler) ==
  LET method == get(message, "method", None)
      params == get(message, "params", EmptyDict)
      msg_id == get(message, "id", None)
  IN IF method = Str("tools/list")
     THEN IF handler.kind = "raise" THEN handler
          ELSE Return(ResultResponse(msg_id, handler.value))
     ELSE IF method = Str("tools/call")
     THEN IF ~IsDict(params) THEN Raise(NoAttribute)        \* params.get('name')
          ELSE IF handler.kind = "raise" THEN handler
          ELSE Return(ResultResponse(msg_id, handler.value))
     ELSE Return(ErrorResponse(msg_id, -32601, <<"Method not found: ", Format(method)>>))

\* a process_message without its except clause
process_message_NoExcept(message, server, handler) ==
  IF ~server
  THEN Return(ErrorResponse(get(message, "id", None), -32603, <<"MCP server not initialized">>))
  ELSE Route(message, handler)

\* mcp_server.py lines 182-255: process_message.  server is whether self.server
\* is set, handler what the tool handler comes to when it is called.
process_message(message, server, handler) ==
  IF ~server
  THEN Return(ErrorResponse(get(message, "id", None), -32603, <<"MCP server not initialized">>))
  ELSE LET out == Route(message, handler)
       IN IF out.kind = "raise"
          THEN Return(ErrorResponse(get(message, "id", None), -32603,
                                    <<"Internal error: ", out.value>>))
          ELSE out

\* an error response that leaves the request's id out
error_response_NoId(message, text) ==
  ErrorResponse(None, -32603, <<"Internal error: ", text>>)

\* sse_handler.py lines 388-396: the payload built when the processing thread
\* catches an exception
error_response(message, text) ==
  ErrorResponse(get(message, "id", None), -32603, <<"Internal error: ", text>>)

NoResponse == [kind |-> "none", value |-> None]

\* a message handed to process_message, on a server with or without self.server
InitRouter ==
  /\ rt_pc = "request"
  /\ rt_server \in BOOLEAN
  /\ rt_message \in Messages
  /\ rt_response = NoResponse

\* no process_message call
IdleRouter ==
  /\ rt_pc = "idle"
  /\ rt_server = TRUE
  /\ rt_message = EmptyDict
  /\ rt_response = NoResponse

\* mcp_server.py lines 182-255: one call of process_message
ProcessMessage(handler) ==
  /\ rt_pc = "request"
  /\ rt_response' = process_message(rt_message, rt_server, handler)
  /\ rt_pc' = "processed"
  /\ UNCHANGED <<rt_server, rt_message>>
  /\ UNCHANGED offRouter

\* sse_handler.py lines 378-397: the processing thread catches an exception
\* and builds the error payload itself
ProcessThreadError(text) ==
  /\ rt_pc = "request"
  /\ rt_response' = [kind |-> "thread", value |-> error_response(rt_message, text)]
  /\ rt_pc' = "processed"
  /\ UNCHANGED <<rt_server, rt_message>>
  /\ UNCHANGED offRouter

NextRouter ==
  \/ \E handler \in HandlerOutcomes : ProcessMessage(handler)
  \/ ProcessThreadError("thread failed")

\* the payloads made for the message: by process_message, or by the processing thread
Payloads == IF rt_response.kind \in {"return", "thread"} THEN {rt_response.value} ELSE {}

\* C14: every response payload, on every path (a result, an unknown method, an
\* internal failure, a server that is not initialised, an error raised in the
\* processing thread) has jsonrpc "2.0", carries the id of the request as it
\* was sent (None for a message without one), and has exactly one of result
\* and error
C14_WellFormedResponse ==
  \A payload \in Payloads :
    /\ DOMAIN payload \subseteq {"jsonrpc", "id", "result", "error"}
    /\ payload.jsonrpc = "2.0"
    /\ "id" \in DOMAIN rt_message => payload.id = rt_message.id
    /\ "id" \notin DOMAIN rt_message => payload.id = None
    /\ ("result" \in DOMAIN payload) # ("error" \in DOMAIN payload)

\* C14 witness: the processing thread built the error payload for a request
\* whose id is the string a
C14_Witness ==
  /\ rt_pc = "processed" /\ rt_response.kind = "thread"
  /\ "id" \in DOMAIN rt_message /\ rt_message.id = Str("a")
  /\ rt_response.value.id = Str("a") /\ "error" \in DOMAIN rt_response.value

Recognised(message) == get(message, "method", None) \in {Str("tools/list"), Str("tools/call")}
\* the exceptions of handling a recognised method: params that have no get, or
\* what the tool handler raises
Exceptions(message, handler) ==
  IF get(message, "method", None) = Str("tools/call")
     /\ ~IsDict(get(message, "params", EmptyDict))
  THEN {NoAttribute}
  ELSE IF handler.kind = "raise" THEN {handler.value} ELSE {}
IsError(out, code) ==
  /\ out.kind = "return" /\ "error" \in DOMAIN out.value /\ out.value.error.code = code
HasText(out, text) ==
  \E i \in 1..Len(out.value.error.message) : out.value.error.message[i] = text

InitSSE ==
  /\ now = 0
  /\ calls = 0
  /\ running = TRUE
  /\ connections = <<>>
  /\ connected = [s \in Tokens |-> FALSE]
  /\ message_counter = [s \in Tokens |-> 0]
  /\ message_queue = [s \in Tokens |-> <<>>]
  /\ last_activity = [s \in Tokens |-> 0]
  /\ wfile = [s \in Tokens |-> <<>>]
  /\ wfile_ok = [s \in Tokens |-> TRUE]
  /\ sse = [s \in Tokens |-> [pc |-> "none", msg |-> NoMsg]]
  /\ rq = [r \in Requests |-> [pc |-> "idle", token |-> NoToken, status |-> 0,
                                outcome |-> "none", response |-> None, tmp |-> 0, id |-> 0]]
  /\ ka = [pc |-> "top", start |-> 0, current_time |-> 0, sessions |-> <<>>]
  /\ snd = [pc |-> "idle", token |-> NoToken, tmp |-> 0, id |-> 0, sent |-> FALSE]
  /\ enqueued = [s \in Tokens |-> <<>>]
  /\ evicted = {}

(***************************************************************************)
(* handle_sse_endpoint: one thread per session                             *)
(***************************************************************************)
\* lines 212-230: new token, headers, SSEConnection(), registration under the lock
OpenSession ==
  /\ calls < MaxCalls
  /\ calls' = calls + 1
  /\ NextToken \in Tokens
  /\ LET s == NextToken IN
       /\ connections' = Append(connections, s)
       /\ connected' = [connected EXCEPT ![s] = TRUE]
       /\ message_counter' = [message_counter EXCEPT ![s] = 0]
       /\ last_activity' = [last_activity EXCEPT ![s] = now]
       /\ sse' = [sse EXCEPT ![s].pc = "registered"]
  /\ UNCHANGED offSse
  /\ UNCHANGED <<now, running, message_queue, wfile, wfile_ok, rq, ka, snd,
                 enqueued, evicted>>

\* lines 233-236: connection.send_event('connected', {...}, event_id=0)
SendConnected(s) ==
  /\ sse[s].pc = "registered"
  /\ SendEvent(s, "connected", s, 0, "drain")
  /\ sse' = [sse EXCEPT ![s].pc = "loop"]
  /\ UNCHANGED offSse
  /\ UNCHANGED <<now, calls, running, connections, message_counter, message_queue,
                 wfile_ok, rq, ka, snd, enqueued, evicted>>

\* a drain loop that never tests the liveness flag
LoopTest_Forever(s) ==
  /\ sse[s].pc = "loop"
  /\ sse' = [sse EXCEPT ![s].pc = "get"]
  /\ UNCHANGED offSse
  /\ UNCHANGED <<now, calls, running, connections, connected, message_counter,
                 message_queue, last_activity, wfile, wfile_ok, rq, ka, snd,
                 enqueued, evicted>>

\* line 245: while connection.connected
LoopTest(s) ==
  /\ sse[s].pc = "loop"
  /\ sse' = [sse EXCEPT ![s].pc = IF connected[s] THEN "get" ELSE "cleanup"]
  /\ UNCHANGED offSse
  /\ UNCHANGED <<now, calls, running, connections, connected, message_counter,
                 message_queue, last_activity, wfile, wfile_ok, rq, ka, snd,
                 enqueued, evicted>>

\* a get that reads the head of the queue and leaves it there
QueueGet_Peek(s) ==
  /\ sse[s].pc = "get"
  /\ IF message_queue[s] # <<>>
     THEN sse' = [sse EXCEPT ![s] = [pc |-> "send", msg |-> Head(message_queue[s])]]
     ELSE sse' = [sse EXCEPT ![s].pc = "loop"]
  /\ UNCHANGED offSse
  /\ UNCHANGED <<now, calls, running, connections, connected, message_counter,
                 message_queue, last_activity, wfile, wfile_ok, rq, ka, snd,
                 enqueued, evicted>>

\* lines 249, 258-260: message_queue.get(timeout=1.0), or Empty
QueueGet(s) ==
  /\ sse[s].pc = "get"
  /\ IF message_queue[s] # <<>>
     THEN /\ sse' = [sse EXCEPT ![s] = [pc |-> "send", msg |-> Head(message_queue[s])]]
          /\ message_queue' = [message_queue EXCEPT ![s] = Tail(@)]
     ELSE /\ sse' = [sse EXCEPT ![s].pc = "loop"]
          /\ UNCHANGED message_queue
  /\ UNCHANGED offSse
  /\ UNCHANGED <<now, calls, running, connections, connected, message_counter,
                 last_activity, wfile, wfile_ok, rq, ka, snd, enqueued, evicted>>

\* lines 252-256: connection.send_event(message['event'], message['data'], message['id'])
DrainSend(s) ==
  /\ sse[s].pc = "send"
  /\ SendEvent(s, sse[s].msg.event, sse[s].msg.data, sse[s].msg.id, "drain")
  /\ sse' = [sse EXCEPT ![s] = [pc |-> "loop", msg |-> NoMsg]]
  /\ UNCHANGED offSse
  /\ UNCHANGED <<now, calls, running, connections, message_counter, message_queue,
                 wfile_ok, rq, ka, snd, enqueued, evicted>>

\* lines 267-272: removal from the registry under the lock, return True
Cleanup(s) ==
  /\ sse[s].pc = "cleanup"
  /\ connections' = Remove(connections, s)
  /\ sse' = [sse EXCEPT ![s].pc = "done"]
  /\ UNCHANGED offSse
  /\ UNCHANGED <<now, calls, running, connected, message_counter, message_queue,
                 last_activity, wfile, wfile_ok, rq, ka, snd, enqueued, evicted>>

(***************************************************************************)
(* handle_messages_endpoint and the thread _process_message_async starts   *)
(***************************************************************************)
\* a POST handler that does not test the result of the registry lookup
HandleMessages_NoLookup(r, path, body) ==
  /\ calls < MaxCalls
  /\ calls' = calls + 1
  /\ rq[r].pc = "idle"
  /\ \A q \in Requests : q < r => rq[q].pc # "idle"
  /\ LET status ==
           IF path = NoToken THEN 400
           ELSE IF body = "empty" THEN 400
           ELSE IF body = "badjson" THEN 400
           ELSE IF body = "nonobject" THEN 500
           ELSE 202
     IN rq' = [rq EXCEPT ![r] = [@ EXCEPT !.token = path, !.status = status,
                                    !.pc = IF status = 202 THEN "processing" ELSE "done"]]
  /\ UNCHANGED offSse
  /\ UNCHANGED <<now, running, connections, connected, message_counter,
                 message_queue, last_activity, wfile, wfile_ok, sse, ka, snd,
                 enqueued, evicted>>

\* a POST handler that starts the processing and has not written its 202 yet
HandleMessages_AckLate(r, path, body) ==
  /\ calls < MaxCalls
  /\ calls' = calls + 1
  /\ rq[r].pc = "idle"
  /\ \A q \in Requests : q < r => rq[q].pc # "idle"
  /\ LET status ==
           IF path = NoToken THEN 400
           ELSE IF path \notin Tokens \/ ~Registered(path) THEN 404
           ELSE IF body = "empty" THEN 400
           ELSE IF body = "badjson" THEN 400
           ELSE IF body = "nonobject" THEN 500
           ELSE 0
     IN rq' = [rq EXCEPT ![r] = [@ EXCEPT !.token = path, !.status = status,
                                    !.pc = IF status = 0 THEN "processing" ELSE "done"]]
  /\ UNCHANGED offSse
  /\ UNCHANGED <<now, running, connections, connected, message_counter,
                 message_queue, last_activity, wfile, wfile_ok, sse, ka, snd,
                 enqueued, evicted>>

\* lines 291-351: the whole POST handler.  path is the token the path carries,
\* body the kind of body read from the request.
HandleMessages(r, path, body) ==
  /\ calls < MaxCalls
  /\ calls' = calls + 1
  /\ rq[r].pc = "idle"
  /\ \A q \in Requests : q < r => rq[q].pc # "idle"   \* requests are numbered as they arrive
  /\ LET status ==
           IF path = NoToken THEN 400                 \* len(path_parts) < 4
           ELSE IF path \notin Tokens \/ ~Registered(path) THEN 404
           ELSE IF body = "empty" THEN 400
           ELSE IF body = "badjson" THEN 400
           ELSE IF body = "nonobject" THEN 500       \* message.get raises, line 328
           ELSE 202
     IN rq' = [rq EXCEPT ![r] = [@ EXCEPT !.token = path, !.status = status,
                                    !.pc = IF status = 202 THEN "processing" ELSE "done"]]
  /\ UNCHANGED offSse
  /\ UNCHANGED <<now, running, connections, connected, message_counter,
                 message_queue, last_activity, wfile, wfile_ok, sse, ka, snd,
                 enqueued, evicted>>

\* the JSON-RPC message in the body of request r
RequestMessage(r) ==
  IF r % 3 = 1 THEN Dict(Num(1), Str("tools/list"), Absent)
  ELSE IF r % 3 = 2 THEN Dict(Str("a"), Str("initialize"), Absent)
  ELSE Dict(Absent, Str("tools/call"), None)

\* lines 368-376 and 381-396: process_message returns its response or an
\* exception reaches the thread, which builds the error response; then the
\* lookup of the session under the lock
ProcessLookup(r, outcome) ==
  /\ rq[r].pc = "processing"
  /\ \E handler \in HandlerOutcomes :
       rq' = [rq EXCEPT ![r] =
                [@ EXCEPT !.outcome = outcome,
                          !.response = IF outcome = "raised"
                                       THEN error_response(RequestMessage(r), "thread failed")
                                       ELSE process_message(RequestMessage(r), TRUE, handler).value,
                          !.pc = IF Registered(rq[r].token) THEN "qm_check" ELSE "done"]]
  /\ UNCHANGED offSse
  /\ UNCHANGED <<now, calls, running, connections, connected, message_counter,
                 message_queue, last_activity, wfile, wfile_ok, sse, ka, snd,
                 enqueued, evicted>>

\* queue_message lines 73-77: the liveness test, and the load of `message_counter += 1`
QMCheck(r) ==
  /\ rq[r].pc = "qm_check"
  /\ rq' = [rq EXCEPT ![r] = IF connected[rq[r].token]
                             THEN [@ EXCEPT !.pc = "qm_store", !.tmp = message_counter[rq[r].token]]
                             ELSE [@ EXCEPT !.pc = "done"]]
  /\ UNCHANGED offSse
  /\ UNCHANGED <<now, calls, running, connections, connected, message_counter,
                 message_queue, last_activity, wfile, wfile_ok, sse, ka, snd,
                 enqueued, evicted>>

\* queue_message line 77: the store of `message_counter += 1`
QMStore(r) ==
  /\ rq[r].pc = "qm_store"
  /\ message_counter' = [message_counter EXCEPT ![rq[r].token] = rq[r].tmp + 1]
  /\ rq' = [rq EXCEPT ![r].pc = "qm_build"]
  /\ UNCHANGED offSse
  /\ UNCHANGED <<now, calls, running, connections, connected, message_queue,
                 last_activity, wfile, wfile_ok, sse, ka, snd, enqueued, evicted>>

\* queue_message lines 78-83: the envelope takes its id from message_counter
QMBuild(r) ==
  /\ rq[r].pc = "qm_build"
  /\ rq' = [rq EXCEPT ![r] = [@ EXCEPT !.pc = "qm_put", !.id = message_counter[rq[r].token]]]
  /\ UNCHANGED offSse
  /\ UNCHANGED <<now, calls, running, connections, connected, message_counter,
                 message_queue, last_activity, wfile, wfile_ok, sse, ka, snd,
                 enqueued, evicted>>

\* an envelope that is a 'message' whatever happened
Envelope_AlwaysMessage(r) ==
  [id |-> rq[r].id, event |-> "message", data |-> r]

\* the envelope of request r: a 'message' with the response, or an 'error' (lines 377, 397);
\* its data is the response of request r, rq[r].response
Envelope(r) ==
  [id |-> rq[r].id, event |-> IF rq[r].outcome = "raised" THEN "error" ELSE "message", data |-> r]

\* a put on the queue of the session registered first, whatever the token
QMPut_FirstSession(r) ==
  /\ rq[r].pc = "qm_put"
  /\ LET s == IF connections = <<>> THEN rq[r].token ELSE Head(connections) IN
       /\ message_queue' = [message_queue EXCEPT ![s] = Append(@, Envelope(r))]
       /\ enqueued' = [enqueued EXCEPT ![s] = Append(@, Envelope(r))]
       /\ last_activity' = [last_activity EXCEPT ![s] = now]
  /\ rq' = [rq EXCEPT ![r] = [@ EXCEPT !.pc = "done", !.tmp = 0]]
  /\ UNCHANGED offSse
  /\ UNCHANGED <<now, calls, running, connections, connected, message_counter,
                 wfile, wfile_ok, sse, ka, snd, evicted>>

\* queue_message lines 85-86: message_queue.put(message); last_activity = time.time()
QMPut(r) ==
  /\ rq[r].pc = "qm_put"
  /\ message_queue' = [message_queue EXCEPT ![rq[r].token] = Append(@, Envelope(r))]
  /\ enqueued' = [enqueued EXCEPT ![rq[r].token] = Append(@, Envelope(r))]
  /\ last_activity' = [last_activity EXCEPT ![rq[r].token] = now]
  /\ rq' = [rq EXCEPT ![r] = [@ EXCEPT !.pc = "done", !.tmp = 0]]
  /\ UNCHANGED offSse
  /\ UNCHANGED <<now, calls, running, connections, connected, message_counter,
                 wfile, wfile_ok, sse, ka, snd, evicted>>

(***************************************************************************)
(* _keepalive_loop: the liveness sweep                                     *)
(***************************************************************************)
\* line 409: while self.running
KALoopTest ==
  /\ ka.pc = "top"
  /\ ka' = IF running THEN [ka EXCEPT !.pc = "sleep", !.start = now]
                      ELSE [ka EXCEPT !.pc = "stopped"]
  /\ UNCHANGED offSse
  /\ UNCHANGED <<now, calls, running, connections, connected, message_counter,
                 message_queue, last_activity, wfile, wfile_ok, sse, rq, snd,
                 enqueued, evicted>>

\* lines 411-417: sleep returns, current_time, the snapshot under the lock
KASnapshot ==
  /\ ka.pc = "sleep"
  /\ now >= ka.start + keepalive_interval
  /\ ka' = [ka EXCEPT !.pc = "iter", !.current_time = now, !.sessions = connections]
  /\ UNCHANGED offSse
  /\ UNCHANGED <<now, calls, running, connections, connected, message_counter,
                 message_queue, last_activity, wfile, wfile_ok, sse, rq, snd,
                 enqueued, evicted>>

\* the staleness test with its operands swapped
Stale_Swapped(s) == last_activity[s] - ka.current_time > connection_timeout

\* line 421: whether the sweep finds the session stale
Stale(s) == ka.current_time - last_activity[s] > connection_timeout

\* lines 419-423 and 431: the next session of the snapshot: stale, live or dead
KAIter ==
  /\ ka.pc = "iter"
  /\ IF ka.sessions = <<>>
     THEN /\ ka' = [ka EXCEPT !.pc = "top"]
          /\ UNCHANGED <<connected, evicted>>
     ELSE LET s == Head(ka.sessions) IN
          IF Stale(s)
          THEN /\ connected' = [connected EXCEPT ![s] = FALSE]     \* connection.close()
               /\ evicted' = evicted \cup {[s |-> s, at |-> ka.current_time]}
               /\ ka' = [ka EXCEPT !.pc = "del"]
          ELSE /\ ka' = IF connected[s] THEN [ka EXCEPT !.pc = "ping"]
                                        ELSE [ka EXCEPT !.sessions = Tail(@)]
               /\ UNCHANGED <<connected, evicted>>
  /\ UNCHANGED offSse
  /\ UNCHANGED <<now, calls, running, connections, message_counter, message_queue,
                 last_activity, wfile, wfile_ok, sse, rq, snd, enqueued>>

\* a keepalive that is written and leaves last_activity as it was
KAPing_NoActivity ==
  /\ ka.pc = "ping"
  /\ LET s == Head(ka.sessions) IN
       IF wfile_ok[s]
       THEN /\ wfile' = [wfile EXCEPT ![s] = Append(@, Keepalive("keepalive"))]
            /\ ka' = [ka EXCEPT !.pc = "iter", !.sessions = Tail(@)]
            /\ UNCHANGED <<connected, last_activity>>
       ELSE /\ connected' = [connected EXCEPT ![s] = FALSE]
            /\ ka' = [ka EXCEPT !.pc = "del"]
            /\ UNCHANGED <<wfile, last_activity>>
  /\ UNCHANGED offSse
  /\ UNCHANGED <<now, calls, running, connections, message_counter, message_queue,
                 wfile_ok, sse, rq, snd, enqueued, evicted>>

\* lines 432, 138-149: send_keepalive writes the comment, or fails and marks the session dead
KAPing ==
  /\ ka.pc = "ping"
  /\ LET s == Head(ka.sessions) IN
       IF wfile_ok[s]
       THEN /\ wfile' = [wfile EXCEPT ![s] = Append(@, Keepalive("keepalive"))]
            /\ last_activity' = [last_activity EXCEPT ![s] = now]
            /\ ka' = [ka EXCEPT !.pc = "iter", !.sessions = Tail(@)]
            /\ UNCHANGED connected
       ELSE /\ connected' = [connected EXCEPT ![s] = FALSE]
            /\ ka' = [ka EXCEPT !.pc = "del"]
            /\ UNCHANGED <<wfile, last_activity>>
  /\ UNCHANGED offSse
  /\ UNCHANGED <<now, calls, running, connections, message_counter, message_queue,
                 wfile_ok, sse, rq, snd, enqueued, evicted>>

\* lines 425-428 and 435-437: removal from the registry under the lock
KADelete ==
  /\ ka.pc = "del"
  /\ connections' = Remove(connections, Head(ka.sessions))
  /\ ka' = [ka EXCEPT !.pc = "iter", !.sessions = Tail(@)]
  /\ UNCHANGED offSse
  /\ UNCHANGED <<now, calls, running, connected, message_counter, message_queue,
                 last_activity, wfile, wfile_ok, sse, rq, snd, enqueued, evicted>>

(***************************************************************************)
(* SSETransport.send_event, close_connection, shutdown                     *)
(***************************************************************************)
\* SSETransport.send_event lines 456-463: the lookup under the lock
SELookup(t) ==
  /\ calls < MaxCalls
  /\ calls' = calls + 1
  /\ snd.pc = "idle"
  /\ snd' = [snd EXCEPT !.token = t, !.pc = IF Registered(t) THEN "check" ELSE "done"]
  /\ UNCHANGED offSse
  /\ UNCHANGED <<now, running, connections, connected, message_counter,
                 message_queue, last_activity, wfile, wfile_ok, sse, rq, ka,
                 enqueued, evicted>>

\* SSEConnection.send_event lines 102-108: the liveness test, the load of the counter
SECheck ==
  /\ snd.pc = "check"
  /\ snd' = IF connected[snd.token]
            THEN [snd EXCEPT !.pc = "store", !.tmp = message_counter[snd.token]]
            ELSE [snd EXCEPT !.pc = "done"]
  /\ UNCHANGED offSse
  /\ UNCHANGED <<now, calls, running, connections, connected, message_counter,
                 message_queue, last_activity, wfile, wfile_ok, sse, rq, ka,
                 enqueued, evicted>>

\* line 108: the store of `message_counter += 1`
SEStore ==
  /\ snd.pc = "store"
  /\ message_counter' = [message_counter EXCEPT ![snd.token] = snd.tmp + 1]
  /\ snd' = [snd EXCEPT !.pc = "read"]
  /\ UNCHANGED offSse
  /\ UNCHANGED <<now, calls, running, connections, connected, message_queue,
                 last_activity, wfile, wfile_ok, sse, rq, ka, enqueued, evicted>>

\* line 109: event_id = self.message_counter
SERead ==
  /\ snd.pc = "read"
  /\ snd' = [snd EXCEPT !.pc = "write", !.id = message_counter[snd.token]]
  /\ UNCHANGED offSse
  /\ UNCHANGED <<now, calls, running, connections, connected, message_counter,
                 message_queue, last_activity, wfile, wfile_ok, sse, rq, ka,
                 enqueued, evicted>>

\* lines 113-129: the writes and the flush, with no second liveness test
SEWrite ==
  /\ snd.pc = "write"
  /\ LET s == snd.token IN
       IF wfile_ok[s]
       THEN /\ wfile' = [wfile EXCEPT ![s] = Append(@, Event("message", 0, snd.id, "direct"))]
            /\ last_activity' = [last_activity EXCEPT ![s] = now]
            /\ UNCHANGED connected
       ELSE /\ connected' = [connected EXCEPT ![s] = FALSE]
            /\ UNCHANGED <<wfile, last_activity>>
  /\ snd' = [snd EXCEPT !.pc = "done", !.sent = wfile_ok[snd.token]]
  /\ UNCHANGED offSse
  /\ UNCHANGED <<now, calls, running, connections, message_counter, message_queue,
                 wfile_ok, sse, rq, ka, enqueued, evicted>>

\* close_connection lines 482-487, all under the lock
CloseConnection(s) ==
  /\ calls < MaxCalls
  /\ calls' = calls + 1
  /\ Registered(s)
  /\ connected' = [connected EXCEPT ![s] = FALSE]
  /\ connections' = Remove(connections, s)
  /\ UNCHANGED offSse
  /\ UNCHANGED <<now, running, message_counter, message_queue, last_activity,
                 wfile, wfile_ok, sse, rq, ka, snd, enqueued, evicted>>

\* shutdown lines 496-502
Shutdown ==
  /\ calls < MaxCalls
  /\ calls' = calls + 1
  /\ running
  /\ running' = FALSE
  /\ connected' = [s \in Tokens |-> IF Registered(s) THEN FALSE ELSE connected[s]]
  /\ connections' = <<>>
  /\ UNCHANGED offSse
  /\ UNCHANGED <<now, message_counter, message_queue, last_activity, wfile,
                 wfile_ok, sse, rq, ka, snd, enqueued, evicted>>

(***************************************************************************)
(* The environment: the clock and the clients' sockets                     *)
(***************************************************************************)
Tick(dt) ==
  /\ calls < MaxCalls
  /\ now' = now + dt
  /\ calls' = calls + 1
  /\ UNCHANGED offSse
  /\ UNCHANGED <<running, connections, connected, message_counter, message_queue,
                 last_activity, wfile, wfile_ok, sse, rq, ka, snd, enqueued, evicted>>

\* the client of session s goes away: every later write on its wfile raises
ClientDisconnect(s) ==
  /\ calls < MaxCalls
  /\ calls' = calls + 1
  /\ sse[s].pc # "none"
  /\ wfile_ok[s]
  /\ wfile_ok' = [wfile_ok EXCEPT ![s] = FALSE]
  /\ UNCHANGED offSse
  /\ UNCHANGED <<now, running, connections, connected, message_counter,
                 message_queue, last_activity, wfile, sse, rq, ka, snd, enqueued,
                 evicted>>

(***************************************************************************)
(* Properties of the transport                                             *)
(***************************************************************************)
IsPrefix(a, b) == Len(a) <= Len(b) /\ \A i \in 1..Len(a) : a[i] = b[i]
AsEnvelope(w) == [id |-> w.id, event |-> w.event, data |-> w.data]
\* the envelopes the drain loop took from the queue and wrote on the channel
Delivered(s) ==
  LET d == SelectSeq(wfile[s], LAMBDA w : w.kind = "event" /\ w.by = "drain" /\ w.event # "connected")
  IN [i \in 1..Len(d) |-> AsEnvelope(d[i])]
\* every event written on the channel, by whichever thread
Events(s) == SelectSeq(wfile[s], LAMBDA w : w.kind = "event")
Count(seq, e) == Cardinality({i \in 1..Len(seq) : seq[i] = e})
EvictedTokens == {e.s : e \in evicted}
InHand(s) == IF sse[s].pc = "send" THEN <<sse[s].msg>> ELSE <<>>

\* C1: the drain loop writes a session's envelopes in the order queue_message
\* enqueued them and with non-decreasing sequence ids, also under concurrent
\* queue_message calls on the session.
C1_FifoNonDecreasingIds ==
  \A s \in Tokens :
    /\ IsPrefix(Delivered(s), enqueued[s])
    /\ \A i, j \in 1..Len(Delivered(s)) : i < j => Delivered(s)[i].id <= Delivered(s)[j].id

\* C2 as stated: every envelope put on a session's queue is written on its
\* channel exactly once; none is written twice and, once the drain loop has
\* ended, none was dropped.
C2_ExactlyOnce ==
  \A s \in Tokens :
    /\ \A i \in 1..Len(enqueued[s]) : Count(Delivered(s), enqueued[s][i]) <= 1
    /\ sse[s].pc = "done" =>
         \A i \in 1..Len(enqueued[s]) : Count(Delivered(s), enqueued[s][i]) = 1

\* C2 amended: every envelope put on a session's queue is written at most once
\* and in queue order, and as long as the session's liveness flag is set none is
\* lost: each is written, in the drain loop's hand, or still queued.
C2_AtMostOnceNoLossWhileLive ==
  \A s \in Tokens :
    /\ IsPrefix(Delivered(s), enqueued[s])
    /\ \A i \in 1..Len(enqueued[s]) : Count(Delivered(s), enqueued[s][i]) <= 1
    /\ connected[s] => enqueued[s] = Delivered(s) \o InHand(s) \o message_queue[s]

\* C2 witness: two envelopes enqueued on one session and both written by the drain loop
C2_Witness == \E s \in Tokens : Len(Delivered(s)) = 2 /\ connected[s]

\* C3: the first envelope on a session's channel is the connected envelope with
\* id 0 and the session's token, whatever the other threads do, and a session
\* that is live and writable once its drain loop runs has got it.
C3_ConnectedFirst ==
  \A s \in Tokens :
    /\ Events(s) # <<>> => Events(s)[1] = Event("connected", s, 0, "drain")
    /\ (sse[s].pc \in {"loop", "get", "send"} /\ connected[s] /\ wfile_ok[s])
         => Events(s) # <<>>

\* C4: a sweep that finds a session of its snapshot idle for longer than the
\* timeout marks it dead and goes on to remove it from the registry, and no
\* keepalive is written to it from then on, in that sweep or a later one.
C4_IdleEvictedNoKeepalive ==
  /\ [][\A s \in Tokens :
          (/\ ka.pc = "iter" /\ ka.sessions # <<>> /\ Head(ka.sessions) = s
           /\ ka.current_time - last_activity[s] > connection_timeout
           /\ ka' # ka)
          => (~connected'[s] /\ s \in EvictedTokens' /\ ka'.pc = "del" /\ wfile'[s] = wfile[s])]_vars
  /\ [](\A s \in EvictedTokens :
          /\ ~connected[s]
          /\ Registered(s) => (ka.pc = "del" /\ Head(ka.sessions) = s))
  /\ [][\A s \in EvictedTokens :
          wfile'[s] # wfile[s] => wfile'[s][Len(wfile'[s])].kind # "keepalive"]_vars

\* C4 witness: a session was evicted for idleness and a later sweep is under way
C4_Witness ==
  \E e \in evicted : ~Registered(e.s) /\ ka.pc = "iter" /\ ka.current_time > e.at

\* C5: a POST whose path has no token is answered 400 and one whose token is not
\* registered 404; neither starts processing, enqueues an envelope or changes
\* the registry, then or later.
C5_UnknownSessionClientError ==
  /\ [][\A r \in Requests :
          (/\ rq[r].pc = "idle" /\ rq'[r].pc # "idle"
           /\ (rq'[r].token \notin Tokens \/ ~Registered(rq'[r].token)))
          => /\ rq'[r].status = (IF rq'[r].token = NoToken THEN 400 ELSE 404)
             /\ rq'[r].pc = "done"
             /\ connections' = connections
             /\ message_queue' = message_queue
             /\ enqueued' = enqueued]_vars
  /\ [](\A r \in Requests :
          rq[r].status \in {400, 404} =>
            /\ rq[r].pc = "done"
            /\ \A s \in Tokens : \A i \in 1..Len(enqueued[s]) : enqueued[s][i].data # r)

\* C5 witness: a POST for a session that was open and is closed by then got 404
C5_Witness ==
  \E r \in Requests :
    /\ rq[r].status = 404 /\ rq[r].token \in Tokens
    /\ sse[rq[r].token].pc # "none" /\ ~Registered(rq[r].token)

\* where the envelopes that answer request r are: session and place in its queue's history
EnvelopesFor(r) ==
  {at \in Tokens \X (1..MaxRequests) :
     at[2] <= Len(enqueued[at[1]]) /\ enqueued[at[1]][at[2]].data = r}

\* C12: a request that is accepted gets its 202 in the handler's own step,
\* which ends with the processing still to be done and nothing enqueued for it;
\* and an envelope that answers a request is on a queue only when that
\* request's 202 has been written
C12_AckBeforeEnvelope ==
  /\ [][\A r \in Requests :
          rq[r].pc = "idle" /\ rq'[r].pc \notin {"idle", "done"}
          => /\ rq'[r].status = 202
             /\ rq'[r].pc = "processing"
             /\ enqueued' = enqueued
             /\ message_queue' = message_queue]_vars
  /\ [](\A r \in Requests :
          /\ rq[r].status = 202 => rq[r].pc # "idle"
          /\ rq[r].pc \notin {"idle", "done"} => rq[r].status = 202
          /\ EnvelopesFor(r) # {} => rq[r].status = 202)

\* C12 witness: an accepted request was answered on its session's queue
C12_Witness ==
  \E r \in Requests : rq[r].status = 202 /\ EnvelopesFor(r) # {} /\ rq[r].pc = "done"

\* the responses the router can give to request r
RouterResponses(r) ==
  {process_message(RequestMessage(r), TRUE, handler).value : handler \in HandlerOutcomes}

\* C13: an accepted request whose session the lookup after the processing
\* finds registered, and queue_message finds live, gets exactly one envelope,
\* on that session's queue: a 'message' with the router's response, or an
\* 'error' with the code -32603 and the request's id when the processing raised;
\* no request gets more than one
C13_ExactlyOneEnvelope ==
  /\ [](\A r \in Requests :
          /\ Cardinality(EnvelopesFor(r)) <= 1
          /\ rq[r].pc \in {"idle", "processing", "qm_check", "qm_store", "qm_build", "qm_put"}
               => EnvelopesFor(r) = {}
          /\ \A at \in EnvelopesFor(r) :
               LET envelope == enqueued[at[1]][at[2]] IN
                 /\ at[1] = rq[r].token /\ rq[r].status = 202
                 /\ rq[r].outcome = "result"
                      => envelope.event = "message" /\ rq[envelope.data].response \in RouterResponses(r)
                 /\ rq[r].outcome = "raised"
                      => /\ envelope.event = "error"
                         /\ rq[envelope.data].response.error.code = -32603
                         /\ rq[envelope.data].response.id = get(RequestMessage(r), "id", None))
  /\ [][\A r \in Requests :
          /\ rq[r].pc = "processing" /\ rq'[r].pc # "processing" /\ Registered(rq[r].token)
               => rq'[r].pc = "qm_check"
          /\ rq[r].pc = "qm_check" /\ rq'[r].pc # "qm_check" /\ connected[rq[r].token]
               => rq'[r].pc = "qm_store"
          /\ rq[r].pc = "qm_store" => rq'[r].pc \in {"qm_store", "qm_build"}
          /\ rq[r].pc = "qm_build" => rq'[r].pc \in {"qm_build", "qm_put"}
          /\ rq[r].pc = "qm_put" /\ rq'[r].pc # "qm_put"
               => /\ rq'[r].pc = "done"
                  /\ Cardinality(EnvelopesFor(r)') = 1
                  /\ message_queue'[rq[r].token] =
                       Append(message_queue[rq[r].token], Envelope(r))]_vars

\* C13 witness: the processing of an accepted request raised and its session
\* got the error envelope
C13_Witness ==
  \E r \in Requests :
    /\ rq[r].pc = "done" /\ rq[r].outcome = "raised"
    /\ \E at \in EnvelopesFor(r) :
         /\ enqueued[at[1]][at[2]].event = "error"
         /\ rq[r].response.error.code = -32603

\* C38: the envelope of a request posted with token T is enqueued on the
\* session registered under T and on no other; when that session is no longer
\* registered as the processing completes, the response is dropped and no
\* envelope is enqueued anywhere, then or later
C38_EnvelopeOnlyOnItsSession ==
  /\ [](\A r \in Requests : \A at \in EnvelopesFor(r) : at[1] = rq[r].token)
  /\ [][\A r \in Requests :
          /\ QMPut(r)
               => \A s \in Tokens :
                    s # rq[r].token
                    => enqueued'[s] = enqueued[s] /\ message_queue'[s] = message_queue[s]
          /\ (rq[r].pc = "processing" /\ rq'[r].pc # "processing" /\ ~Registered(rq[r].token))
               => /\ rq'[r].pc = "done"
                  /\ enqueued' = enqueued /\ message_queue' = message_queue
          /\ rq[r].pc = "done" => EnvelopesFor(r)' = EnvelopesFor(r)]_vars

\* C38 witness: two sessions, and the request posted on the second has its
\* envelope on the second session's queue while the first session's is empty
C38_Witness ==
  \E r \in Requests :
    /\ rq[r].pc = "done" /\ rq[r].token = 2
    /\ Registered(1) /\ Registered(2) /\ connected[1]
    /\ enqueued[2] = <<Envelope(r)>>
    /\ enqueued[1] = <<>> /\ message_queue[1] = <<>>

\* C16: a request on a known session whose body is empty, is not JSON, or is
\* JSON but not an object is answered with a client error (4xx), never with a
\* server error and never with 202; no processing starts, nothing is enqueued,
\* and the session stays as it was
C16_BadBodyClientError ==
  [][\A r \in Requests, path \in Tokens, body \in {"empty", "badjson", "nonobject"} :
       HandleMessages(r, path, body) /\ Registered(path)
       => /\ rq'[r].status \in 400..499
          /\ rq'[r].pc = "done"
          /\ enqueued' = enqueued /\ message_queue' = message_queue
          /\ connections' = connections /\ connected' = connected /\ sse' = sse]_vars

\* C23: once shutdown has completed (running is cleared and the registry has been
\* emptied) no session is registered and no session is live, whenever its
\* open-session call reached the registration
C23_AfterShutdownNoSession ==
  ~running => /\ connections = <<>>
              /\ \A s \in Tokens : ~connected[s]

\* the ids given so far to envelopes of session s: the connected envelope's, the
\* ones of the envelopes put on its queue or written directly, and the ones a
\* thread has read from the counter for an envelope it is about to put or write
AssignedIds(s) ==
  {Events(s)[i].id : i \in 1..Len(Events(s))}
    \cup {enqueued[s][i].id : i \in 1..Len(enqueued[s])}
    \cup {rq[r].id : r \in {q \in Requests : rq[q].pc = "qm_put" /\ rq[q].token = s}}
    \cup (IF snd.pc = "write" /\ snd.token = s THEN {snd.id} ELSE {})

\* C24: the connected envelope of a session has id 0, and each id that
\* queue_message or send_event gives to a later envelope of the session is
\* greater than every id given before it, so no id is given twice, also when
\* several threads run queue_message or send_event on the session concurrently
C24_IdsStrictlyIncreasing ==
  [][/\ \A s \in Tokens : \A i \in 1..Len(Events(s)') :
          Events(s)'[i].event = "connected" => Events(s)'[i].id = 0
     /\ \A r \in Requests :
          QMBuild(r) => \A id \in AssignedIds(rq[r].token) : rq'[r].id > id
     /\ SERead => \A id \in AssignedIds(snd.token) : snd'.id > id]_vars

\* C25: delivering to a closed or write-failing session never raises:
\* queue_message on a session whose liveness flag is cleared returns at once and
\* leaves the queue and the counter as they were, and a send_event whose write on
\* the channel fails clears the liveness flag and returns failure; the thread
\* that called it goes on as after any other call
C25_DeliveryNeverRaises ==
  [][/\ \A r \in Requests :
          QMCheck(r) /\ ~connected[rq[r].token]
          => /\ rq'[r].pc = "done"
             /\ message_queue' = message_queue /\ enqueued' = enqueued
             /\ message_counter' = message_counter
     /\ \A s \in Tokens :
          (SendConnected(s) \/ DrainSend(s)) /\ connected[s] /\ ~wfile_ok[s]
          => ~connected'[s] /\ wfile' = wfile /\ sse'[s].pc = "loop"
     /\ SEWrite /\ ~wfile_ok[snd.token]
          => /\ ~connected'[snd.token] /\ wfile' = wfile
             /\ snd'.pc = "done" /\ snd'.sent = FALSE]_vars

\* C25 witness: the write of the connected envelope failed and marked the session
\* dead, and a request's queue_message on it returned with nothing enqueued
C25_Witness ==
  \E s \in Tokens, r \in Requests :
    /\ Registered(s) /\ ~connected[s] /\ ~wfile_ok[s] /\ sse[s].pc = "loop"
    /\ rq[r].pc = "done" /\ rq[r].token = s /\ rq[r].status = 202 /\ rq[r].outcome # "none"
    /\ enqueued[s] = <<>> /\ message_queue[s] = <<>> /\ message_counter[s] = 0

\* C26: once a failed write has marked a session dead (its liveness flag is
\* cleared while it is still in the registry: close_connection clears the flag
\* and removes the entry in one step under the lock) nothing more is delivered to
\* it: no envelope and no keepalive is written on its channel and no envelope is
\* added to its queue, whatever the other threads do
C26_NoDeliveryAfterFailedWrite ==
  [][\A s \in Tokens :
       Registered(s) /\ ~connected[s] /\ ~wfile_ok[s]
       => /\ wfile'[s] = wfile[s]
          /\ enqueued'[s] = enqueued[s]
          /\ \E i \in 0..Len(message_queue[s]) :
               message_queue'[s] = SubSeq(message_queue[s], i + 1, Len(message_queue[s]))]_vars

\* the liveness flag of a session that was opened is cleared
Cleared(s) == sse[s].pc # "none" /\ ~connected[s]
\* the drain loop of the session has ended and the session is not in the registry
Ended(s) == sse[s].pc = "done" /\ ~Registered(s)

\* C27: whenever the liveness flag of a session is cleared, by close_connection,
\* the idle timeout, a failed write of an envelope or a keepalive, or shutdown,
\* its drain loop eventually ends, and from then on the session is not in the
\* registry: a cleared flag stays cleared, a session that has ended stays so,
\* and from some point on every session whose flag is cleared has ended
C27_ClearedFlagEndsDrain ==
  /\ [][\A s \in Tokens : (Cleared(s) => Cleared(s)') /\ (Ended(s) => Ended(s)')]_vars
  /\ <>[](\A s \in Tokens : Cleared(s) => Ended(s))

\* C27 witness: a session that wrote on its channel, was evicted by the idle
\* timeout, and whose drain loop has ended and left the registry
C27_Witness ==
  \E s \in Tokens :
    /\ sse[s].pc = "done" /\ ~connected[s] /\ ~Registered(s)
    /\ s \in EvictedTokens /\ wfile[s] # <<>>

\* C29: whatever is written on a session's channel is written by the session's
\* own thread (the connected envelope and the drain loop): the liveness loop, a
\* caller of SSETransport.send_event and the request handlers write nothing on it
C29_DrainLoopOnlyWriter ==
  \A s \in Tokens : \A i \in 1..Len(wfile[s]) : wfile[s][i].by = "drain"

\* the envelopes written on the channel of s by a caller of SSETransport.send_event
Direct(s) == SelectSeq(wfile[s], LAMBDA w : w.kind = "event" /\ w.by = "direct")
\* a session that was registered and has been removed from the registry
Removed(s) == sse[s].pc # "none" /\ ~Registered(s)

\* C30: removal from the registry is atomic with respect to delivery: a delivery
\* that looked the session up (_process_message_async, SSETransport.send_event)
\* puts no envelope on the queue and writes none on the channel of a session
\* that has been removed from the registry by then
C30_NoDeliveryAfterRemoval ==
  [][\A s \in Tokens :
       Removed(s) => enqueued'[s] = enqueued[s] /\ Direct(s)' = Direct(s)]_vars

(***************************************************************************)
(* The executor bridge: EdgeLakeDirectClient.execute_command               *)
(* (edge_lake/mcp_server/core/direct_client.py).  The caller is a coroutine*)
(* on the event loop; _sync_execute runs on a thread of the executor.      *)
(***************************************************************************)
BridgeCalls == 1..MaxBridgeCalls
Commands == {"get status", "blockchain get operator"}
Timeouts == {MaxTimeout}
NoError == [type |-> "none", command |-> "", timeout |-> 0]

InitBridge ==
  /\ loop_time = 0
  /\ ex = [c \in BridgeCalls |-> [pc |-> "idle", command |-> "", timeout |-> 0, start |-> 0,
                                   returns |-> TRUE, work |-> "none", outcome |-> "none",
                                   error |-> NoError]]
  /\ work_queue = <<>>
  /\ executor_shutdown = FALSE
  /\ close_returned = FALSE

\* the work items a thread of the executor is running
Running == {c \in BridgeCalls : ex[c].work = "running"}

\* lines 68-79: run_in_executor submits _sync_execute, wait_for arms the timer.
\* returns tells whether member_cmd.process_cmd ever returns for this command.
ExecuteCommand(c, command, timeout, returns) ==
  /\ ex[c].pc = "idle"
  /\ \A q \in BridgeCalls : q < c => ex[q].pc # "idle"     \* calls are numbered as they arrive
  /\ loop_time + timeout <= MaxTime
  /\ IF executor_shutdown
     THEN \* submit raises RuntimeError, which the handler of TimeoutError lets through
          /\ ex' = [ex EXCEPT ![c] = [@ EXCEPT !.pc = "raised", !.command = command,
                                               !.timeout = timeout, !.start = loop_time,
                                               !.returns = returns,
                                               !.error = [type |-> "RuntimeError",
                                                          command |-> "", timeout |-> 0]]]
          /\ UNCHANGED work_queue
     ELSE /\ ex' = [ex EXCEPT ![c] = [@ EXCEPT !.pc = "waiting", !.command = command,
                                               !.timeout = timeout, !.start = loop_time,
                                               !.returns = returns, !.work = "queued"]]
          /\ work_queue' = Append(work_queue, c)
  /\ UNCHANGED loop_time
  /\ UNCHANGED <<executor_shutdown, close_returned>>
  /\ UNCHANGED offBridge

\* an executor that starts a thread for every work item
WorkerTake_Unbounded ==
  /\ work_queue # <<>>
  /\ LET c == Head(work_queue) IN
       ex' = [ex EXCEPT ![c].work = IF @ = "cancelled" THEN "cancelled" ELSE "running"]
  /\ work_queue' = Tail(work_queue)
  /\ UNCHANGED loop_time
  /\ UNCHANGED <<executor_shutdown, close_returned>>
  /\ UNCHANGED offBridge

\* line 34: a free thread of the pool takes the oldest work item; an item
\* cancelled while it was queued is dropped and never runs
WorkerTake ==
  /\ work_queue # <<>>
  /\ Cardinality(Running) < max_workers
  /\ LET c == Head(work_queue) IN
       ex' = [ex EXCEPT ![c].work = IF @ = "cancelled" THEN "cancelled" ELSE "running"]
  /\ work_queue' = Tail(work_queue)
  /\ UNCHANGED loop_time
  /\ UNCHANGED <<executor_shutdown, close_returned>>
  /\ UNCHANGED offBridge

\* _sync_execute returns after its caller timed out, and puts an envelope with
\* its result on the queue of the request's session
SyncExecuteDone_Enqueues(c, outcome) ==
  /\ ex[c].work = "running"
  /\ ex[c].returns
  /\ ex' = [ex EXCEPT ![c] = [@ EXCEPT !.work = "finished", !.outcome = outcome]]
  /\ IF ex[c].pc = "timed_out" /\ c \in Requests /\ rq[c].token \in Tokens
     THEN /\ message_queue' = [message_queue EXCEPT ![rq[c].token] = Append(@, Envelope(c))]
          /\ enqueued' = [enqueued EXCEPT ![rq[c].token] = Append(@, Envelope(c))]
     ELSE UNCHANGED <<message_queue, enqueued>>
  /\ UNCHANGED <<loop_time, work_queue>>
  /\ UNCHANGED <<executor_shutdown, close_returned>>
  /\ UNCHANGED <<now, calls, running, connections, connected, message_counter,
                 last_activity, wfile, wfile_ok, sse, rq, ka, snd, evicted>>
  /\ UNCHANGED <<syncVars, modeVars, streamVars, routerVars, queryVars, lockVars, protocolVars>>

\* lines 119-147: process_cmd returns and _sync_execute returns a result or raises
SyncExecuteDone(c, outcome) ==
  /\ ex[c].work = "running"
  /\ ex[c].returns
  /\ ex' = [ex EXCEPT ![c] = [@ EXCEPT !.work = "finished", !.outcome = outcome]]
  /\ UNCHANGED <<loop_time, work_queue>>
  /\ UNCHANGED <<executor_shutdown, close_returned>>
  /\ UNCHANGED offBridge

\* lines 71-79: the future is done and the event loop resumes the caller with
\* the result, or with the exception _sync_execute raised
Resume(c) ==
  /\ ex[c].pc = "waiting"
  /\ ex[c].work = "finished"
  /\ ex' = [ex EXCEPT ![c] =
              IF ex[c].outcome = "result"
              THEN [@ EXCEPT !.pc = "returned"]
              ELSE [@ EXCEPT !.pc = "raised",
                             !.error = [type |-> "Exception", command |-> "", timeout |-> 0]]]
  /\ UNCHANGED <<loop_time, work_queue>>
  /\ UNCHANGED <<executor_shutdown, close_returned>>
  /\ UNCHANGED offBridge

\* a timer that fires one clock step before its time
TimerDue_Early(c) == loop_time + 1 >= ex[c].start + ex[c].timeout

\* line 78: the timer wait_for armed with timeout is due
TimerDue(c) == loop_time >= ex[c].start + ex[c].timeout

\* lines 80-82: wait_for cancels the future and raises; the caller gets
\* TimeoutError with the timeout and the command.  Cancelling stops a work
\* item that is still queued and does nothing to one that is running.
ExecTimeout(c) ==
  /\ ex[c].pc = "waiting"
  /\ TimerDue(c)
  /\ ex' = [ex EXCEPT ![c] = [@ EXCEPT !.pc = "timed_out",
                                       !.work = IF @ = "queued" THEN "cancelled" ELSE @,
                                       !.error = [type |-> "TimeoutError",
                                                  command |-> ex[c].command,
                                                  timeout |-> ex[c].timeout]]]
  /\ UNCHANGED <<loop_time, work_queue>>
  /\ UNCHANGED <<executor_shutdown, close_returned>>
  /\ UNCHANGED offBridge

\* the event loop's clock advances
LoopTick ==
  /\ loop_time < MaxTime
  /\ loop_time' = loop_time + 1
  /\ UNCHANGED <<ex, work_queue>>
  /\ UNCHANGED <<executor_shutdown, close_returned>>
  /\ UNCHANGED offBridge

\* C6: a call whose blocking call never returns resumes its caller with
\* TimeoutError carrying the command, no earlier than the timeout after the call
\* started, never with a result or another error, and a worker that is running
\* the blocking call is left running.
C6_TimeoutAfterDeadline ==
  /\ [][\A c \in BridgeCalls :
          (ex[c].pc = "waiting" /\ ex'[c].pc = "timed_out")
          => /\ loop_time >= ex[c].start + ex[c].timeout
             /\ ex'[c].error = [type |-> "TimeoutError", command |-> ex[c].command,
                                timeout |-> ex[c].timeout]
             /\ ex'[c].error.command \in Commands
             /\ (ex[c].work = "running" => ex'[c].work = "running")]_vars
  /\ [](\A c \in BridgeCalls : ~ex[c].returns => ex[c].pc \in {"idle", "waiting", "timed_out"})
  /\ [][\A c \in BridgeCalls :
          (~ex[c].returns /\ ex[c].work = "running") => ex'[c].work = "running"]_vars
  /\ \A c \in BridgeCalls : (ex[c].pc = "waiting" /\ ~ex[c].returns) ~> (ex[c].pc = "timed_out")

\* C6 witness: a call that never returns has timed out and its worker is still running
C6_Witness ==
  \E c \in BridgeCalls :
    /\ ~ex[c].returns /\ ex[c].pc = "timed_out" /\ ex[c].work = "running"
    /\ loop_time >= ex[c].start + ex[c].timeout

\* every thread of the executor is running a blocking call that never returns
Saturated == Cardinality({c \in Running : ~ex[c].returns}) = max_workers

\* C37: at most max_workers blocking calls run at once; a call whose caller
\* has timed out keeps its worker until the blocking call returns; and once
\* every worker is held by a call that never returns, a later execute_command
\* ends in TimeoutError without its blocking call ever being started
C37_PoolBoundsBlockingCalls ==
  /\ [](Cardinality(Running) <= max_workers)
  /\ [][\A c \in BridgeCalls :
          (ex[c].pc = "timed_out" /\ ex[c].work = "running" /\ ex'[c].work # "running")
          => ex[c].returns /\ ex'[c].work = "finished"]_vars
  /\ [][Saturated
          => /\ Saturated'
             /\ \A c \in BridgeCalls :
                  /\ ex[c].work # "running" => ex'[c].work # "running"
                  /\ (ex[c].pc = "idle" /\ ex'[c].pc # "idle")
                       => ex'[c].pc = "waiting" /\ ex'[c].work = "queued"
                  /\ (ex[c].pc = "waiting" /\ ex[c].work = "queued" /\ ex'[c].pc # "waiting")
                       => /\ ex'[c].pc = "timed_out"
                          /\ ex'[c].error.type = "TimeoutError"
                          /\ ex'[c].work = "cancelled"]_vars
  /\ <>[](Saturated => \A c \in BridgeCalls : ex[c].pc # "waiting")

\* C37 witness: the one worker is held by a call that never returns and whose
\* caller timed out, and a later call timed out without having been started
C37_Witness ==
  /\ Saturated
  /\ \E c \in BridgeCalls, d \in BridgeCalls :
       /\ c < d
       /\ ex[c].pc = "timed_out" /\ ex[c].work = "running" /\ ~ex[c].returns
       /\ ex[d].pc = "timed_out" /\ ex[d].work = "cancelled"
       /\ ex[d].start >= ex[c].start
       /\ ex[d].error.type = "TimeoutError"

\* lines 449-452: close() calls executor.shutdown(wait=True), which shuts the
\* executor down; the work submitted before still runs, nothing can be
\* submitted after
Close ==
  /\ ~executor_shutdown
  /\ executor_shutdown' = TRUE
  /\ UNCHANGED <<loop_time, ex, work_queue, close_returned>>
  /\ UNCHANGED offBridge

\* a shutdown that does not wait for the threads
CloseReturn_NoWait ==
  /\ executor_shutdown
  /\ ~close_returned
  /\ close_returned' = TRUE
  /\ UNCHANGED <<loop_time, ex, work_queue, executor_shutdown>>
  /\ UNCHANGED offBridge

\* line 452, wait=True: shutdown joins the threads of the pool, which end
\* when the work queue is empty and the call each was running has returned
CloseReturn ==
  /\ executor_shutdown
  /\ ~close_returned
  /\ Running = {}
  /\ work_queue = <<>>
  /\ close_returned' = TRUE
  /\ UNCHANGED <<loop_time, ex, work_queue, executor_shutdown>>
  /\ UNCHANGED offBridge

\* the bridge: callers, the executor's threads, the timers and the clock

NextBridge ==
  \/ \E c \in BridgeCalls, command \in Commands, timeout \in Timeouts, returns \in BOOLEAN :
       ExecuteCommand(c, command, timeout, returns)
  \/ WorkerTake
  \/ \E c \in BridgeCalls, outcome \in {"result", "exception"} : SyncExecuteDone(c, outcome)
  \/ \E c \in BridgeCalls : Resume(c)
  \/ \E c \in BridgeCalls : ExecTimeout(c)
  \/ LoopTick

(***************************************************************************)
(* _sync_execute and _extract_result (direct_client.py lines 84-186).      *)
(* Bytes are numbers 0..255, decoded text is a sequence of code points.    *)
(* A Python value is [num |-> n], [str |-> text], [arr |-> values] or      *)
(* [obj |-> members], the members in insertion order.                      *)
(***************************************************************************)
SUCCESS == 0               \* process_status.SUCCESS
NotReady == 141            \* the node is not ready yet, line 135
RetVals == {SUCCESS, NotReady, 1}

\* the bytes the model writes in a buffer: NUL, '"', '1', '[', ']' and 0xFF
Bytes == {0, 34, 49, 91, 93, 255}
\* every buffer of a size up to MaxBufLen, and some longer ones:
\* {"a":1} NUL ]1 NUL,  {"a":1} with no NUL,  "e-acute" NUL,  sp [1, sp 1] sp NUL NUL,
\* {"a":1,"a":[]} NUL,  01 NUL NUL
Buffers ==
  UNION {[1..n -> Bytes] : n \in 1..MaxBufLen}
    \cup {<<123, 34, 97, 34, 58, 49, 125, 0, 93, 49, 0>>,
          <<123, 34, 97, 34, 58, 49, 125>>,
          <<34, 195, 169, 34, 0>>,
          <<32, 91, 49, 44, 32, 49, 93, 32, 0, 0>>,
          <<123, 34, 97, 34, 58, 49, 44, 34, 97, 34, 58, 91, 93, 125, 0>>,
          <<48, 49, 0, 0>>}
\* what the call may have written on the output stream: nothing, [1], a[1]a, a
Texts == {<<>>, <<91, 49, 93>>, <<97, 91, 49, 93, 97>>, <<97>>}

PyStr(text) == [str |-> text]

\* bytes.find: the 0-based index of the first b in buf, or -1
RECURSIVE find_from(_, _, _)
find_from(buf, b, i) ==
  IF i > Len(buf) THEN -1 ELSE IF buf[i] = b THEN i - 1 ELSE find_from(buf, b, i + 1)

\* the 0-based index of the last b in buf, or -1
RECURSIVE find_Last(_, _)
find_Last(buf, b) ==
  IF buf = <<>> THEN -1
  ELSE IF buf[Len(buf)] = b THEN Len(buf) - 1
  ELSE find_Last(SubSeq(buf, 1, Len(buf) - 1), b)

\* line 164: io_buff.find(b'\x00')
find(buf, b) == find_from(buf, b, 1)

\* bytes.decode('utf-8') for the one- and two-byte forms; any other byte is an
\* error (the three- and four-byte forms are not among the model's bytes)
RECURSIVE decode_from(_, _, _)
decode_from(buf, i, acc) ==
  IF i > Len(buf) THEN [ok |-> TRUE, text |-> acc]
  ELSE IF buf[i] < 128 THEN decode_from(buf, i + 1, Append(acc, buf[i]))
  ELSE IF buf[i] \in 194..223 /\ i < Len(buf) /\ buf[i + 1] \in 128..191
       THEN decode_from(buf, i + 2, Append(acc, (buf[i] - 192) * 64 + (buf[i + 1] - 128)))
  ELSE [ok |-> FALSE, text |-> <<>>]

decode(buf) == decode_from(buf, 1, <<>>)

\* json.loads on decoded text: whitespace, strings without escapes, numbers
\* of digits, arrays and objects (the signs, fractions, exponents, escapes and
\* literals of JSON are not among the model's characters)
Ws == {32, 9, 10, 13}
Digits == 48..57
Fail == [ok |-> FALSE, val |-> <<>>, pos |-> 0]
Ok(v, p) == [ok |-> TRUE, val |-> v, pos |-> p]

RECURSIVE SkipWs(_, _)
SkipWs(t, i) == IF i <= Len(t) /\ t[i] \in Ws THEN SkipWs(t, i + 1) ELSE i

\* the closing quote of the string whose first character is at i, or 0
RECURSIVE StringEnd(_, _)
StringEnd(t, i) ==
  IF i > Len(t) THEN 0
  ELSE IF t[i] = 34 THEN i
  ELSE IF t[i] < 32 \/ t[i] = 92 THEN 0
  ELSE StringEnd(t, i + 1)

RECURSIVE DigitsEnd(_, _)
DigitsEnd(t, i) == IF i <= Len(t) /\ t[i] \in Digits THEN DigitsEnd(t, i + 1) ELSE i
\* a number that starts with 0 is that 0 alone
NumberEnd(t, i) == IF t[i] = 48 THEN i + 1 ELSE DigitsEnd(t, i)

RECURSIVE Decimal(_)
Decimal(d) == IF d = <<>> THEN 0 ELSE 10 * Decimal(SubSeq(d, 1, Len(d) - 1)) + (d[Len(d)] - 48)

\* dict[key] = val: a key that is there keeps its place and takes the new value
DictPut(members, key, val) ==
  IF \E k \in 1..Len(members) : members[k].key = key
  THEN [k \in 1..Len(members) |->
          IF members[k].key = key THEN [key |-> key, val |-> val] ELSE members[k]]
  ELSE Append(members, [key |-> key, val |-> val])

RECURSIVE ParseValue(_, _), ParseElements(_, _, _), ParseMembers(_, _, _)
ParseValue(t, i) ==
  IF i > Len(t) THEN Fail
  ELSE IF t[i] = 34
       THEN LET e == StringEnd(t, i + 1)
            IN IF e = 0 THEN Fail ELSE Ok(PyStr(SubSeq(t, i + 1, e - 1)), e + 1)
  ELSE IF t[i] \in Digits
       THEN LET e == NumberEnd(t, i) IN Ok([num |-> Decimal(SubSeq(t, i, e - 1))], e)
  ELSE IF t[i] = 91
       THEN LET j == SkipWs(t, i + 1)
            IN IF j <= Len(t) /\ t[j] = 93 THEN Ok([arr |-> <<>>], j + 1)
                                            ELSE ParseElements(t, j, <<>>)
  ELSE IF t[i] = 123
       THEN LET j == SkipWs(t, i + 1)
            IN IF j <= Len(t) /\ t[j] = 125 THEN Ok([obj |-> <<>>], j + 1)
                                             ELSE ParseMembers(t, j, <<>>)
  ELSE Fail

\* the elements of an array from the value at i on
ParseElements(t, i, acc) ==
  LET v == ParseValue(t, i) IN
  IF ~v.ok THEN Fail
  ELSE LET j == SkipWs(t, v.pos) IN
       IF j > Len(t) THEN Fail
       ELSE IF t[j] = 93 THEN Ok([arr |-> Append(acc, v.val)], j + 1)
       ELSE IF t[j] = 44 THEN ParseElements(t, SkipWs(t, j + 1), Append(acc, v.val))
       ELSE Fail

\* the members of an object from the key at i on
ParseMembers(t, i, acc) ==
  IF i > Len(t) \/ t[i] # 34 THEN Fail
  ELSE LET e == StringEnd(t, i + 1) IN
       IF e = 0 THEN Fail
       ELSE LET c == SkipWs(t, e + 1) IN
            IF c > Len(t) \/ t[c] # 58 THEN Fail
            ELSE LET v == ParseValue(t, SkipWs(t, c + 1)) IN
                 IF ~v.ok THEN Fail
                 ELSE LET j == SkipWs(t, v.pos)
                          members == DictPut(acc, SubSeq(t, i + 1, e - 1), v.val)
                      IN IF j > Len(t) THEN Fail
                         ELSE IF t[j] = 125 THEN Ok([obj |-> members], j + 1)
                         ELSE IF t[j] = 44 THEN ParseMembers(t, SkipWs(t, j + 1), members)
                         ELSE Fail

\* json.loads(text): the value, or ok = FALSE for JSONDecodeError
json_loads(text) ==
  LET v == ParseValue(text, SkipWs(text, 1))
  IN IF v.ok /\ SkipWs(text, v.pos) > Len(text) THEN [ok |-> TRUE, val |-> v.val]
                                                 ELSE [ok |-> FALSE, val |-> <<>>]

\* an _extract_result that takes a buffer without terminator as all result
extract_result_WholeBuffer(buf) ==
  LET null_pos == IF find(buf, 0) = -1 THEN Len(buf) ELSE find(buf, 0) IN
  IF null_pos > 0
  THEN LET buffer_str == decode(SubSeq(buf, 1, null_pos)) IN
       IF ~buffer_str.ok THEN PyStr(<<>>)
       ELSE IF buffer_str.text # <<>>
            THEN IF json_loads(buffer_str.text).ok
                 THEN json_loads(buffer_str.text).val
                 ELSE PyStr(buffer_str.text)
            ELSE PyStr(<<>>)
  ELSE PyStr(<<>>)

\* lines 162-186: _extract_result
extract_result(buf) ==
  LET null_pos == find(buf, 0) IN
  IF null_pos > 0
  THEN LET buffer_str == decode(SubSeq(buf, 1, null_pos)) IN
       IF ~buffer_str.ok THEN PyStr(<<>>)                     \* except Exception, line 181
       ELSE IF buffer_str.text # <<>>
            THEN IF json_loads(buffer_str.text).ok
                 THEN json_loads(buffer_str.text).val
                 ELSE PyStr(buffer_str.text)                   \* line 178
            ELSE PyStr(<<>>)
  ELSE PyStr(<<>>)                                            \* line 186

InitSync ==
  /\ se_pc = "start"
  /\ io_buff = <<0>>
  /\ ret_val = SUCCESS
  /\ stdout_text = <<>>
  /\ result = PyStr(<<>>)
  /\ process_cmd_calls = 0

\* lines 99-126: io_buff = bytearray(buff_size), all zero, and process_cmd,
\* which leaves bytes in the buffer, text on the output stream and returns
ProcessCmd(buf, ret, text) ==
  /\ se_pc = "start"
  /\ se_pc' = "called"
  /\ io_buff' = buf
  /\ ret_val' = ret
  /\ stdout_text' = text
  /\ process_cmd_calls' = process_cmd_calls + 1
  /\ UNCHANGED result
  /\ UNCHANGED offSync

\* what status.get_saved_error() returns: nothing, or the diagnostic process_cmd saved
SavedErrors == {"", "dbms not connected"}

\* line 141: status.get_saved_error() or f"Command failed with code {ret_val}"
error_msg(saved, ret) ==
  IF saved # "" THEN <<saved>> ELSE <<"Command failed with code ", ret>>

\* a _sync_execute that reads the buffer also when the node is not ready
SyncExecuteReturn_ReadsBuffer(saved) ==
  /\ se_pc = "called"
  /\ IF ret_val \in {SUCCESS, NotReady}
     THEN se_pc' = "returned" /\ result' = extract_result(io_buff)
     ELSE se_pc' = "raised" /\ result' = [error |-> error_msg(saved, ret_val)]
  /\ UNCHANGED <<io_buff, ret_val, stdout_text, process_cmd_calls>>
  /\ UNCHANGED offSync

\* a _sync_execute that calls process_cmd again when it failed
SyncExecuteReturn_Retries(saved) ==
  /\ se_pc = "called"
  /\ IF ret_val = SUCCESS
     THEN se_pc' = "returned" /\ result' = extract_result(io_buff)
     ELSE IF ret_val = NotReady
          THEN se_pc' = "returned" /\ result' = PyStr(<<>>)
          ELSE /\ se_pc' = IF process_cmd_calls < 2 THEN "start" ELSE "raised"
               /\ result' = [error |-> error_msg(saved, ret_val)]
  /\ UNCHANGED <<io_buff, ret_val, stdout_text, process_cmd_calls>>
  /\ UNCHANGED offSync

\* lines 130-143: the result by the return code.  saved is what
\* status.get_saved_error() returns when the code is a failure.
SyncExecuteReturn(saved) ==
  /\ se_pc = "called"
  /\ IF ret_val = SUCCESS
     THEN se_pc' = "returned" /\ result' = extract_result(io_buff)
     ELSE IF ret_val = NotReady
          THEN se_pc' = "returned" /\ result' = PyStr(<<>>)
          ELSE se_pc' = "raised" /\ result' = [error |-> error_msg(saved, ret_val)]
  /\ UNCHANGED <<io_buff, ret_val, stdout_text, process_cmd_calls>>
  /\ UNCHANGED offSync

\* whether buf holds a terminator, and the bytes before the first one
HasTerminator(buf) == \E i \in 1..Len(buf) : buf[i] = 0
Payload(buf) ==
  LET first == CHOOSE i \in 1..Len(buf) : buf[i] = 0 /\ \A j \in 1..(i - 1) : buf[j] # 0
  IN SubSeq(buf, 1, first - 1)

\* C39: when process_cmd succeeded and the buffer holds no terminator (the
\* result filled it) or its first byte is the terminator, _sync_execute
\* returns the empty string and raises nothing
C39_NoTerminatorEmptySuccess ==
  (se_pc \in {"returned", "raised"} /\ ret_val = SUCCESS
     /\ (~HasTerminator(io_buff) \/ io_buff[1] = 0))
  => se_pc = "returned" /\ result = PyStr(<<>>)

\* C39 witness: the JSON text {"a":1} fills the buffer, with no terminator
C39_Witness ==
  /\ se_pc = "returned" /\ ret_val = SUCCESS
  /\ io_buff = <<123, 34, 97, 34, 58, 49, 125>> /\ ~HasTerminator(io_buff)
  /\ result = PyStr(<<>>)

\* C7: when process_cmd succeeded and left a result in the buffer, the result of
\* _sync_execute is that of the bytes before the first terminator, whatever the
\* size of the buffer and the bytes after the terminator: the JSON value if the
\* bytes decode to JSON text, otherwise the decoded text itself.  So {"a":1}
\* followed by NUL ]1 NUL gives the object with a = 1.
C7_ResultFromBytesBeforeTerminator ==
  (se_pc = "returned" /\ ret_val = SUCCESS /\ HasTerminator(io_buff))
  => /\ (Payload(io_buff) # <<>> /\ decode(Payload(io_buff)).ok)
        => LET text == decode(Payload(io_buff)).text
           IN result = IF json_loads(text).ok THEN json_loads(text).val ELSE PyStr(text)
     /\ Payload(io_buff) = <<123, 34, 97, 34, 58, 49, 125>>
        => result = [obj |-> <<[key |-> <<97>>, val |-> [num |-> 1]]>>]
     /\ Payload(io_buff) = <<49, 93>> => result = PyStr(<<49, 93>>)
     /\ Payload(io_buff) = <<91, 93>> => result = [arr |-> <<>>]

\* C7 witness: the buffer held {"a":1} NUL ]1 NUL and the result is the object
C7_Witness ==
  /\ se_pc = "returned" /\ ret_val = SUCCESS
  /\ io_buff = <<123, 34, 97, 34, 58, 49, 125, 0, 93, 49, 0>>
  /\ result = [obj |-> <<[key |-> <<97>>, val |-> [num |-> 1]]>>]

\* the JSON value embedded in captured text: from the first opening brace or
\* bracket to the delimiter that closes it, nested delimiters balanced (none of
\* the model's texts holds a result marker, which would only move the start)
FirstOpen(t) ==
  IF \E i \in 1..Len(t) : t[i] \in {123, 91}
  THEN CHOOSE i \in 1..Len(t) : t[i] \in {123, 91} /\ \A j \in 1..(i - 1) : t[j] \notin {123, 91}
  ELSE 0
RECURSIVE MatchClose(_, _, _)
MatchClose(t, i, depth) ==
  IF i > Len(t) THEN 0
  ELSE IF t[i] \in {123, 91} THEN MatchClose(t, i + 1, depth + 1)
  ELSE IF t[i] \in {125, 93} THEN IF depth = 1 THEN i ELSE MatchClose(t, i + 1, depth - 1)
  ELSE MatchClose(t, i + 1, depth)
Embedded(t) ==
  LET open == FirstOpen(t)
      close == IF open = 0 THEN 0 ELSE MatchClose(t, open + 1, 1)
  IN IF close = 0 THEN <<>> ELSE SubSeq(t, open, close)
Recovered(t) ==
  IF json_loads(t).ok THEN json_loads(t).val
  ELSE IF json_loads(Embedded(t)).ok THEN json_loads(Embedded(t)).val
  ELSE PyStr(t)

\* C8: when process_cmd succeeded and left the buffer empty, the result of
\* _sync_execute is recovered from the text the call wrote on the output stream:
\* the whole text as JSON if it parses, otherwise the JSON value embedded in it,
\* otherwise the text itself.
C8_RecoveredFromCapturedText ==
  (se_pc = "returned" /\ ret_val = SUCCESS /\ io_buff[1] = 0)
  => result = Recovered(stdout_text)

\* the bridge with its close()
NextClose ==
  \/ NextBridge
  \/ Close
  \/ CloseReturn

\* every work item that is queued or running is a call that returns
AllReturn == \A c \in BridgeCalls : ex[c].work \in {"queued", "running"} => ex[c].returns

\* C40: close() returns only after every blocking call that was started has
\* returned, the calls whose callers got TimeoutError included, and it
\* returns if and only if every started blocking call returns
C40_CloseWaitsForStartedCalls ==
  /\ [](close_returned
          => /\ executor_shutdown
             /\ work_queue = <<>>
             /\ \A c \in BridgeCalls : ex[c].work \in {"none", "finished", "cancelled"})
  /\ [][(\E c \in BridgeCalls : ex[c].work = "running" /\ ~ex[c].returns)
          => /\ \E c \in BridgeCalls : ex'[c].work = "running" /\ ~ex'[c].returns
             /\ ~close_returned /\ ~close_returned']_vars
  /\ (executor_shutdown /\ AllReturn) ~> close_returned

\* C40 witness: close() has returned, after the blocking call of a caller
\* that had timed out returned
C40_Witness ==
  /\ close_returned
  /\ \E c \in BridgeCalls :
       ex[c].pc = "timed_out" /\ ex[c].work = "finished" /\ ex[c].returns

\* C22: once the bridge has been shut down, a new execute_command returns an
\* empty success at once: it raises nothing and submits nothing to the pool
C22_AfterCloseEmptySuccess ==
  [][\A c \in BridgeCalls :
       executor_shutdown /\ ex[c].pc = "idle" /\ ex'[c].pc # "idle"
       => /\ ex'[c].pc = "returned"
          /\ ex'[c].error = NoError
          /\ ex'[c].work = "none"
          /\ work_queue' = work_queue]_vars

NextSync ==
  \/ \E buf \in Buffers, ret \in RetVals, text \in Texts : ProcessCmd(buf, ret, text)
  \/ \E saved \in SavedErrors : SyncExecuteReturn(saved)

\* C17: when process_cmd returns the not-ready code 141, _sync_execute returns
\* the empty string and raises nothing, whatever process_cmd left in the buffer
C17_NotReadyEmptySuccess ==
  se_pc \in {"returned", "raised"} /\ ret_val = NotReady
    => se_pc = "returned" /\ result = PyStr(<<>>)

\* C17 witness: not ready, with the JSON text 1 and its terminator in the buffer
C17_Witness ==
  /\ se_pc = "returned" /\ ret_val = NotReady /\ io_buff = <<49, 0, 0>>
  /\ result = PyStr(<<>>)

\* C18: when process_cmd returns a code that is neither success nor not ready,
\* _sync_execute raises an error whose message is the diagnostic the call
\* saved when there is one, and 'Command failed with code N' otherwise; and
\* process_cmd is called exactly once, whatever it returns
C18_FailureRaisesOnce ==
  /\ [](se_pc \in {"called", "returned", "raised"} => process_cmd_calls = 1)
  /\ [](se_pc = "start" => process_cmd_calls = 0)
  /\ [](se_pc \in {"returned", "raised"}
          => (se_pc = "raised" <=> ret_val \notin {SUCCESS, NotReady}))
  /\ [][\A saved \in SavedErrors :
          SyncExecuteReturn(saved) /\ ret_val \notin {SUCCESS, NotReady}
          => /\ se_pc' = "raised"
             /\ saved # "" => result'.error = <<saved>>
             /\ saved = "" => result'.error = <<"Command failed with code ", ret_val>>]_vars

\* C18 witness: the call failed with code 1 and had saved a diagnostic, which
\* is the message of the error raised
C18_Witness ==
  /\ se_pc = "raised" /\ ret_val = 1 /\ process_cmd_calls = 1
  /\ result = [error |-> <<"dbms not connected">>]

(***************************************************************************)
(* Mode selection: QueryExecutor._select_mode (query_executor.py 462-494). *)
(* SQL text is a sequence of code points.                                  *)
(***************************************************************************)
\* what is selected: "*", "x", "COUNT(*)", "avg(x)", "Sum(x)", "MIN(x)", "max(x)", "speed_limit"
SelectLists ==
  {<<42>>,
   <<120>>,
   <<67, 79, 85, 78, 84, 40, 42, 41>>,
   <<97, 118, 103, 40, 120, 41>>,
   <<83, 117, 109, 40, 120, 41>>,
   <<77, 73, 78, 40, 120, 41>>,
   <<109, 97, 120, 40, 120, 41>>,
   <<115, 112, 101, 101, 100, 95, 108, 105, 109, 105, 116>>}
\* the GROUP BY clause: nothing, " GROUP BY x", " group by x", " GROUP  BY x", " GROUP\nBY x"
GroupClauses ==
  {<<>>,
   <<32, 71, 82, 79, 85, 80, 32, 66, 89, 32, 120>>,
   <<32, 103, 114, 111, 117, 112, 32, 98, 121, 32, 120>>,
   <<32, 71, 82, 79, 85, 80, 32, 32, 66, 89, 32, 120>>,
   <<32, 71, 82, 79, 85, 80, 10, 66, 89, 32, 120>>}
\* the LIMIT clause: nothing, " LIMIT 10", " limit 10", " LIMIT\n10", " LIMIT\t10"
LimitClauses ==
  {<<>>,
   <<32, 76, 73, 77, 73, 84, 32, 49, 48>>,
   <<32, 108, 105, 109, 105, 116, 32, 49, 48>>,
   <<32, 76, 73, 77, 73, 84, 10, 49, 48>>,
   <<32, 76, 73, 77, 73, 84, 9, 49, 48>>}
\* SELECT <list> FROM t <group by> <limit>, the keywords SELECT and FROM in either case
Queries ==
  {<<83, 69, 76, 69, 67, 84, 32>> \o l \o <<32, 70, 82, 79, 77, 32, 116>> \o g \o m : l \in SelectLists, g \in GroupClauses, m \in LimitClauses}
    \cup {<<115, 101, 108, 101, 99, 116, 32>> \o l \o <<32, 102, 114, 111, 109, 32, 116>> \o g \o m : l \in SelectLists, g \in GroupClauses, m \in LimitClauses}
NoQuery == <<>>

\* line 472: str.lower() on the letters A-Z
lower(text) == [i \in 1..Len(text) |-> IF text[i] \in 65..90 THEN text[i] + 32 ELSE text[i]]

\* `pat in text`
Contains(text, pat) ==
  \E i \in 0..(Len(text) - Len(pat)) : SubSeq(text, i + 1, i + Len(pat)) = pat

\* lines 478-486: 'count(', 'avg(', 'sum(', 'min(', 'max(', 'limit ', 'group by'
batch_indicators ==
  <<<<99, 111, 117, 110, 116, 40>>,
    <<97, 118, 103, 40>>,
    <<115, 117, 109, 40>>,
    <<109, 105, 110, 40>>,
    <<109, 97, 120, 40>>,
    <<108, 105, 109, 105, 116, 32>>,
    <<103, 114, 111, 117, 112, 32, 98, 121>>>>

\* lines 472-494
select_mode(sql) ==
  IF \E k \in 1..Len(batch_indicators) : Contains(lower(sql), batch_indicators[k])
  THEN "batch"
  ELSE "streaming"

InitMode ==
  /\ sql_query \in Queries
  /\ mode = "none"

\* no query is being given a mode
IdleMode ==
  /\ sql_query = NoQuery
  /\ mode = "none"

\* execute_query lines 441-443, mode "auto"
SelectMode ==
  /\ mode = "none"
  /\ sql_query # NoQuery
  /\ mode' = select_mode(sql_query)
  /\ UNCHANGED sql_query
  /\ UNCHANGED offMode

NextMode == SelectMode

\* the words and signs of SQL text in lower case, white space dropped
WordChars == (48..57) \cup (65..90) \cup (97..122) \cup {95}
RECURSIVE WordEnd(_, _)
WordEnd(t, i) == IF i <= Len(t) /\ t[i] \in WordChars THEN WordEnd(t, i + 1) ELSE i
RECURSIVE Tokens_from(_, _)
Tokens_from(t, i) ==
  IF i > Len(t) THEN <<>>
  ELSE IF t[i] \in WordChars
       THEN <<lower(SubSeq(t, i, WordEnd(t, i) - 1))>> \o Tokens_from(t, WordEnd(t, i))
  ELSE IF t[i] \in {32, 9, 10, 13} THEN Tokens_from(t, i + 1)
  ELSE <<(<<t[i]>>)>> \o Tokens_from(t, i + 1)
SqlTokens(t) == Tokens_from(t, 1)
\* count, avg, sum, min, max
AggregateNames == {<<99, 111, 117, 110, 116>>, <<97, 118, 103>>, <<115, 117, 109>>, <<109, 105, 110>>, <<109, 97, 120>>}
HasAggregateCall(t) ==
  \E k \in 1..(Len(SqlTokens(t)) - 1) :
    SqlTokens(t)[k] \in AggregateNames /\ SqlTokens(t)[k + 1] = <<40>>
HasGroupBy(t) ==
  \E k \in 1..(Len(SqlTokens(t)) - 1) :
    SqlTokens(t)[k] = <<103, 114, 111, 117, 112>> /\ SqlTokens(t)[k + 1] = <<98, 121>>
HasLimit(t) == \E k \in 1..Len(SqlTokens(t)) : SqlTokens(t)[k] = <<108, 105, 109, 105, 116>>

\* C9: auto selection gives batch exactly when the SQL text holds an aggregate
\* function call, a GROUP BY or a LIMIT clause, in whichever case; so
\* SELECT COUNT(*) FROM t and SELECT * FROM t LIMIT 10 get batch and
\* SELECT * FROM t gets streaming.
C9_BatchExactlyForAggregateGroupLimit ==
  mode # "none" =>
    /\ mode = "batch" <=> (HasAggregateCall(sql_query) \/ HasGroupBy(sql_query) \/ HasLimit(sql_query))
    /\ sql_query = <<83, 69, 76, 69, 67, 84, 32, 67, 79, 85, 78, 84, 40, 42, 41, 32, 70, 82, 79, 77, 32, 116>> => mode = "batch"
    /\ sql_query = <<83, 69, 76, 69, 67, 84, 32, 42, 32, 70, 82, 79, 77, 32, 116, 32, 76, 73, 77, 73, 84, 32, 49, 48>> => mode = "batch"
    /\ sql_query = <<83, 69, 76, 69, 67, 84, 32, 42, 32, 70, 82, 79, 77, 32, 116>> => mode = "streaming"

(***************************************************************************)
(* Streaming execution: StreamingExecutor.execute_streaming                *)
(* (query_executor.py 140-261), its caller iterating to the end.  The      *)
(* cursor of edge_lake.dbms.db_info is not part of these sources; it is    *)
(* modelled from its description: a handle over the result set, advanced   *)
(* by fetches of up to fetch_size rows.                                    *)
(***************************************************************************)
\* the result sets and fetch sizes of the model, and 250 rows fetched by 100
StreamCases ==
  ((0..MaxRows) \X (1..MaxFetch)) \cup {<<250, 100>>}
NoData == [kind |-> "none", rows |-> <<>>]

NoResult == [success |-> FALSE, rows |-> <<>>, total_rows |-> 0]

\* a validated statement handed to execute_streaming or to execute_batch
InitStream ==
  /\ \/ st_pc = "start" /\ bt_pc = "idle"
     \/ st_pc = "idle" /\ bt_pc = "start"
  /\ \E case \in StreamCases :
       /\ result_rows = [i \in 1..case[1] |-> i]
       /\ fetch_size = case[2]
  /\ cursor = [state |-> "new", fetched |-> 0, closed |-> 0]
  /\ get_next = FALSE
  /\ rows_data = NoData
  /\ total_rows = 0
  /\ units = <<>>
  /\ exec_error = "none"
  /\ all_rows = <<>>
  /\ batch_result = NoResult

\* no statement is being streamed
IdleStream ==
  /\ st_pc = "idle"
  /\ result_rows = <<>>
  /\ fetch_size = 1
  /\ cursor = [state |-> "new", fetched |-> 0, closed |-> 0]
  /\ get_next = FALSE
  /\ rows_data = NoData
  /\ total_rows = 0
  /\ units = <<>>
  /\ exec_error = "none"
  /\ bt_pc = "idle"
  /\ all_rows = <<>>
  /\ batch_result = NoResult

\* db_info.process_fetch_rows: the next rows of the result, fetch_size of them
\* or those that are left, as the JSON text {"Query": [...]}; with none left,
\* blank text or an empty list.  get_next tells that rows are left; at the very
\* end of the result the cursor may say either (more), when nothing is left
\* it says there is no next.
process_fetch_rows(cur, n, more, blank) ==
  LET left == Len(result_rows) - cur.fetched
      k == IF left < n THEN left ELSE n
  IN [get_next |-> IF left > k THEN TRUE ELSE IF k > 0 THEN more ELSE FALSE,
      rows_data |-> IF k = 0 /\ blank
                    THEN [kind |-> "blank", rows |-> <<>>]
                    ELSE [kind |-> "json",
                          rows |-> SubSeq(result_rows, cur.fetched + 1, cur.fetched + k)],
      cursor |-> [cur EXCEPT !.fetched = @ + k]]

\* lines 180-185: db_info.set_cursor returns 0, or the exception of line 185
SetCursor(ok) ==
  /\ st_pc = "start"
  /\ st_pc' = IF ok THEN "stmt" ELSE "failed"
  /\ cursor' = [cursor EXCEPT !.state = IF ok THEN "set" ELSE @]
  /\ exec_error' = IF ok THEN exec_error ELSE "set_cursor"
  /\ UNCHANGED <<result_rows, fetch_size, get_next, rows_data, total_rows, units>>
  /\ UNCHANGED batchVars
  /\ UNCHANGED offStream

\* lines 187-192: db_info.process_sql_stmt returns 0, or the exception of line 192
ProcessSqlStmt(ok) ==
  /\ st_pc = "stmt"
  /\ st_pc' = IF ok THEN "fetch" ELSE "failed"
  /\ cursor' = [cursor EXCEPT !.state = IF ok THEN "executing" ELSE @]
  /\ exec_error' = IF ok THEN exec_error ELSE "process_sql_stmt"
  /\ UNCHANGED <<result_rows, fetch_size, get_next, rows_data, total_rows, units>>
  /\ UNCHANGED batchVars
  /\ UNCHANGED offStream

\* lines 203-210: get_next, rows_data = db_info.process_fetch_rows(...)
Fetch(more, blank) ==
  /\ st_pc = "fetch"
  /\ LET r == process_fetch_rows(cursor, fetch_size, more, blank) IN
       /\ get_next' = r.get_next
       /\ rows_data' = r.rows_data
       /\ cursor' = r.cursor
  /\ st_pc' = "batch"
  /\ UNCHANGED <<result_rows, fetch_size, total_rows, units, exec_error>>
  /\ UNCHANGED batchVars
  /\ UNCHANGED offStream

\* lines 203-210: process_fetch_rows raises
FetchRaises ==
  /\ st_pc = "fetch"
  /\ st_pc' = "failed"
  /\ exec_error' = "fetch"
  /\ UNCHANGED <<result_rows, cursor, fetch_size, get_next, rows_data, total_rows, units>>
  /\ UNCHANGED batchVars
  /\ UNCHANGED offStream

\* lines 203-210: process_fetch_rows returns text that is not JSON
FetchUnparsable(more) ==
  /\ st_pc = "fetch"
  /\ get_next' = more
  /\ rows_data' = [kind |-> "garbage", rows |-> <<>>]
  /\ st_pc' = "batch"
  /\ UNCHANGED <<result_rows, cursor, fetch_size, total_rows, units, exec_error>>
  /\ UNCHANGED batchVars
  /\ UNCHANGED offStream

\* a batch that is yielded and not counted
YieldBatch_NotCounted ==
  /\ st_pc = "batch"
  /\ IF rows_data.kind = "garbage"
     THEN /\ st_pc' = "failed"
          /\ exec_error' = "parse"
          /\ UNCHANGED units
     ELSE IF rows_data.kind = "blank" \/ rows_data.rows = <<>>
     THEN /\ st_pc' = "complete"
          /\ UNCHANGED <<units, exec_error>>
     ELSE /\ units' = Append(units, [type |-> "data", rows |-> rows_data.rows,
                                     row_count |-> Len(rows_data.rows)])
          /\ st_pc' = "more"
          /\ UNCHANGED exec_error
  /\ UNCHANGED <<result_rows, cursor, fetch_size, get_next, rows_data, total_rows>>
  /\ UNCHANGED batchVars
  /\ UNCHANGED offStream

\* a generator that closes the stream with a complete unit when a batch does not parse
YieldBatch_CompleteOnError ==
  /\ st_pc = "batch"
  /\ IF rows_data.kind = "blank"
     THEN /\ st_pc' = "complete"
          /\ UNCHANGED <<total_rows, units, exec_error>>
     ELSE IF rows_data.kind = "garbage"
     THEN /\ st_pc' = "failed"
          /\ exec_error' = "parse"
          /\ units' = Append(units, [type |-> "complete", total_rows |-> total_rows])
          /\ UNCHANGED total_rows
     ELSE IF rows_data.rows = <<>>
     THEN /\ st_pc' = "complete"
          /\ UNCHANGED <<total_rows, units, exec_error>>
     ELSE /\ total_rows' = total_rows + Len(rows_data.rows)
          /\ units' = Append(units, [type |-> "data", rows |-> rows_data.rows,
                                     row_count |-> Len(rows_data.rows)])
          /\ st_pc' = "more"
          /\ UNCHANGED exec_error
  /\ UNCHANGED <<result_rows, cursor, fetch_size, get_next, rows_data>>
  /\ UNCHANGED batchVars
  /\ UNCHANGED offStream

\* lines 213-241: blank text or an empty list ends the loop; a batch is counted
\* and yielded as a data unit with its rows and their number; text that is not
\* JSON raises
YieldBatch ==
  /\ st_pc = "batch"
  /\ IF rows_data.kind = "blank"
     THEN /\ st_pc' = "complete"
          /\ UNCHANGED <<total_rows, units, exec_error>>
     ELSE IF rows_data.kind = "garbage"
     THEN /\ st_pc' = "failed"
          /\ exec_error' = "parse"
          /\ UNCHANGED <<total_rows, units>>
     ELSE IF rows_data.rows = <<>>
     THEN /\ st_pc' = "complete"
          /\ UNCHANGED <<total_rows, units, exec_error>>
     ELSE /\ total_rows' = total_rows + Len(rows_data.rows)
          /\ units' = Append(units, [type |-> "data", rows |-> rows_data.rows,
                                     row_count |-> Len(rows_data.rows)])
          /\ st_pc' = "more"
          /\ UNCHANGED exec_error
  /\ UNCHANGED <<result_rows, cursor, fetch_size, get_next, rows_data>>
  /\ UNCHANGED batchVars
  /\ UNCHANGED offStream

\* lines 244-246: if not get_next: break
CheckNext ==
  /\ st_pc = "more"
  /\ st_pc' = IF get_next THEN "fetch" ELSE "complete"
  /\ UNCHANGED <<result_rows, cursor, fetch_size, get_next, rows_data, total_rows, units,
                 exec_error>>
  /\ UNCHANGED batchVars
  /\ UNCHANGED offStream

\* lines 250-253: the complete unit
YieldComplete ==
  /\ st_pc = "complete"
  /\ units' = Append(units, [type |-> "complete", total_rows |-> total_rows])
  /\ st_pc' = "finally"
  /\ UNCHANGED <<result_rows, cursor, fetch_size, get_next, rows_data, total_rows, exec_error>>
  /\ UNCHANGED batchVars
  /\ UNCHANGED offStream

\* a finally whose failing close_cursor is what the generator leaves with
CloseCursor_Masking(ok) ==
  /\ st_pc \in {"finally", "failed"}
  /\ cursor' = [cursor EXCEPT !.state = IF ok THEN "closed" ELSE "close_failed", !.closed = @ + 1]
  /\ st_pc' = IF st_pc = "finally" /\ ok THEN "done" ELSE "raised"
  /\ exec_error' = IF ok THEN exec_error ELSE "close_cursor"
  /\ UNCHANGED <<result_rows, fetch_size, get_next, rows_data, total_rows, units>>
  /\ UNCHANGED batchVars
  /\ UNCHANGED offStream

\* lines 255-261: finally: db_info.close_cursor, after the last unit or an
\* exception; what close_cursor raises is logged and goes no further.
\* cursor.closed counts the calls of close_cursor.
CloseCursor(ok) ==
  /\ st_pc \in {"finally", "failed"}
  /\ cursor' = [cursor EXCEPT !.state = IF ok THEN "closed" ELSE "close_failed", !.closed = @ + 1]
  /\ st_pc' = IF st_pc = "finally" THEN "done" ELSE "raised"
  /\ UNCHANGED <<result_rows, fetch_size, get_next, rows_data, total_rows, units, exec_error>>
  /\ UNCHANGED batchVars
  /\ UNCHANGED offStream

\* execute_batch, lines 321-327: db_info.set_cursor, a non-zero code raises
BatchSetCursor(ok) ==
  /\ bt_pc = "start"
  /\ bt_pc' = IF ok THEN "stmt" ELSE "failed"
  /\ cursor' = [cursor EXCEPT !.state = IF ok THEN "set" ELSE @]
  /\ exec_error' = IF ok THEN exec_error ELSE "set_cursor"
  /\ UNCHANGED <<result_rows, fetch_size, get_next, rows_data, all_rows, batch_result>>
  /\ UNCHANGED genVars
  /\ UNCHANGED offStream

\* lines 329-334: db_info.process_sql_stmt, a non-zero code raises
BatchProcessSqlStmt(ok) ==
  /\ bt_pc = "stmt"
  /\ bt_pc' = IF ok THEN "fetch" ELSE "failed"
  /\ cursor' = [cursor EXCEPT !.state = IF ok THEN "executing" ELSE @]
  /\ exec_error' = IF ok THEN exec_error ELSE "process_sql_stmt"
  /\ UNCHANGED <<result_rows, fetch_size, get_next, rows_data, all_rows, batch_result>>
  /\ UNCHANGED genVars
  /\ UNCHANGED offStream

\* lines 341-349: the next batch is fetched
BatchFetch(more, blank) ==
  /\ bt_pc = "fetch"
  /\ LET r == process_fetch_rows(cursor, fetch_size, more, blank) IN
       /\ get_next' = r.get_next
       /\ rows_data' = r.rows_data
       /\ cursor' = r.cursor
  /\ bt_pc' = "batch"
  /\ UNCHANGED <<result_rows, fetch_size, exec_error, all_rows, batch_result>>
  /\ UNCHANGED genVars
  /\ UNCHANGED offStream

\* lines 342-349: process_fetch_rows raises
BatchFetchRaises ==
  /\ bt_pc = "fetch"
  /\ bt_pc' = "failed"
  /\ exec_error' = "fetch"
  /\ UNCHANGED <<result_rows, cursor, fetch_size, get_next, rows_data, all_rows, batch_result>>
  /\ UNCHANGED genVars
  /\ UNCHANGED offStream

\* lines 342-349: process_fetch_rows returns text that is not JSON
BatchFetchUnparsable(more) ==
  /\ bt_pc = "fetch"
  /\ get_next' = more
  /\ rows_data' = [kind |-> "garbage", rows |-> <<>>]
  /\ bt_pc' = "batch"
  /\ UNCHANGED <<result_rows, cursor, fetch_size, exec_error, all_rows, batch_result>>
  /\ UNCHANGED genVars
  /\ UNCHANGED offStream

\* a loop that ends, and returns what it has, when a batch does not parse
BatchCollect_ReturnsPartial ==
  /\ bt_pc = "batch"
  /\ IF rows_data.kind \in {"blank", "garbage"}
     THEN /\ bt_pc' = "return"
          /\ UNCHANGED <<all_rows, exec_error>>
     ELSE /\ all_rows' = all_rows \o rows_data.rows
          /\ bt_pc' = IF get_next THEN "fetch" ELSE "return"
          /\ UNCHANGED exec_error
  /\ UNCHANGED <<result_rows, cursor, fetch_size, get_next, rows_data, batch_result>>
  /\ UNCHANGED genVars
  /\ UNCHANGED offStream

\* lines 351-366: blank text ends the loop, text that is not JSON raises, the
\* rows of a batch are added to all_rows, and the loop goes on while get_next
BatchCollect ==
  /\ bt_pc = "batch"
  /\ IF rows_data.kind = "blank"
     THEN /\ bt_pc' = "return"
          /\ UNCHANGED <<all_rows, exec_error>>
     ELSE IF rows_data.kind = "garbage"
     THEN /\ bt_pc' = "failed"
          /\ exec_error' = "parse"
          /\ UNCHANGED all_rows
     ELSE /\ all_rows' = all_rows \o rows_data.rows
          /\ bt_pc' = IF get_next THEN "fetch" ELSE "return"
          /\ UNCHANGED exec_error
  /\ UNCHANGED <<result_rows, cursor, fetch_size, get_next, rows_data, batch_result>>
  /\ UNCHANGED genVars
  /\ UNCHANGED offStream

\* lines 368-374: the collected rows and their number are returned
BatchReturn ==
  /\ bt_pc = "return"
  /\ batch_result' = [success |-> TRUE, rows |-> all_rows, total_rows |-> Len(all_rows)]
  /\ bt_pc' = "finally"
  /\ UNCHANGED <<result_rows, cursor, fetch_size, get_next, rows_data, exec_error, all_rows>>
  /\ UNCHANGED genVars
  /\ UNCHANGED offStream

\* lines 376-384: finally: db_info.close_cursor, after the return or an
\* exception; what close_cursor raises is logged and goes no further
BatchCloseCursor(ok) ==
  /\ bt_pc \in {"finally", "failed"}
  /\ cursor' = [cursor EXCEPT !.state = IF ok THEN "closed" ELSE "close_failed", !.closed = @ + 1]
  /\ bt_pc' = IF bt_pc = "finally" THEN "done" ELSE "raised"
  /\ UNCHANGED <<result_rows, fetch_size, get_next, rows_data, exec_error, all_rows, batch_result>>
  /\ UNCHANGED genVars
  /\ UNCHANGED offStream

NextStream ==
  \/ \E ok \in BOOLEAN : SetCursor(ok)
  \/ \E ok \in BOOLEAN : ProcessSqlStmt(ok)
  \/ \E more \in BOOLEAN, blank \in BOOLEAN : Fetch(more, blank)
  \/ FetchRaises
  \/ \E more \in BOOLEAN : FetchUnparsable(more)
  \/ YieldBatch
  \/ CheckNext
  \/ YieldComplete
  \/ \E ok \in BOOLEAN : CloseCursor(ok)
  \/ \E ok \in BOOLEAN : BatchSetCursor(ok)
  \/ \E ok \in BOOLEAN : BatchProcessSqlStmt(ok)
  \/ \E more \in BOOLEAN, blank \in BOOLEAN : BatchFetch(more, blank)
  \/ BatchFetchRaises
  \/ \E more \in BOOLEAN : BatchFetchUnparsable(more)
  \/ BatchCollect
  \/ BatchReturn
  \/ \E ok \in BOOLEAN : BatchCloseCursor(ok)

\* where the executor that runs is: before its finally, or left
ExecutorPc == IF bt_pc = "idle" THEN st_pc ELSE bt_pc
CursorErrors == {"set_cursor", "process_sql_stmt", "fetch", "parse"}

\* C11: in streaming and in batch execution the cursor that was created is
\* closed exactly once on every way out (normal completion, set_cursor failing,
\* process_sql_stmt failing, a fetch raising, fetched text that does not
\* parse): close_cursor is not called before the finally, is called once by the
\* time the executor is left, and the step that calls it leaves the error the
\* executor leaves with as it was, also when close_cursor itself fails
C11_CursorClosedExactlyOnce ==
  /\ [](ExecutorPc \in {"start", "stmt", "fetch", "batch", "more", "complete", "return",
                        "finally", "failed"} => cursor.closed = 0)
  /\ [](ExecutorPc \in {"done", "raised"} => cursor.closed = 1)
  /\ [](ExecutorPc = "done" => exec_error = "none")
  /\ [](ExecutorPc \in {"failed", "raised"} => exec_error \in CursorErrors)
  /\ [][cursor'.closed # cursor.closed
          => /\ cursor'.closed = cursor.closed + 1
             /\ exec_error' = exec_error
             /\ ExecutorPc' = IF exec_error = "none" THEN "done" ELSE "raised"]_vars

\* C11 witness: the second fetch raised, close_cursor was called once and failed,
\* and the executor left with the fetch's error
C11_Witness ==
  /\ ExecutorPc = "raised" /\ exec_error = "fetch" /\ cursor.fetched > 0
  /\ cursor.state = "close_failed" /\ cursor.closed = 1

\* C21: execute_batch either returns the whole result once, all the rows in
\* fetch order with total_rows their number, or raises; when set_cursor,
\* process_sql_stmt or a fetch fails, or a batch does not parse, nothing is
\* returned, the rows fetched before included
C21_BatchAllOrNothing ==
  /\ bt_pc \in {"start", "stmt", "fetch", "batch", "return", "failed", "raised"}
       => batch_result = NoResult
  /\ bt_pc \in {"failed", "raised"} => exec_error \in CursorErrors
  /\ bt_pc \in {"finally", "done"}
       => /\ batch_result = [success |-> TRUE, rows |-> result_rows,
                             total_rows |-> Len(result_rows)]
          /\ batch_result.rows = SubSeq(result_rows, 1, cursor.fetched)
          /\ exec_error = "none"

\* C21 witness: five rows fetched by two came back in one result
C21_Witness ==
  /\ bt_pc = "done" /\ fetch_size = 2
  /\ batch_result = [success |-> TRUE, rows |-> <<1, 2, 3, 4, 5>>, total_rows |-> 5]

\* C31: a streaming execution that fails (set_cursor, process_sql_stmt, a fetch
\* raising, a batch that does not parse) yields nothing after the failure and
\* has yielded no complete unit; a complete unit is yielded at most once and is
\* the last unit of the stream
C31_NoCompleteAfterFailure ==
  [][/\ st_pc \in {"failed", "raised", "done"} => units' = units
     /\ st_pc' \in {"failed", "raised"}
          => /\ exec_error' \in CursorErrors
             /\ \A i \in 1..Len(units') : units'[i].type = "data"
     /\ \A i \in 1..Len(units') : units'[i].type = "complete" => i = Len(units')
     /\ \A i \in 1..Len(units) : units[i].type = "complete" => units' = units]_vars

\* C31 witness: a second batch that does not parse after a first that was
\* yielded: the stream holds the data unit and no complete unit
C31_Witness ==
  /\ st_pc = "raised" /\ exec_error = "parse"
  /\ Len(units) = 1 /\ units[1].type = "data" /\ cursor.closed = 1

\* the data units yielded, their rows one after the other, and their row counts added up
DataUnits == SelectSeq(units, LAMBDA u : u.type = "data")
RECURSIVE RowsOf(_)
RowsOf(us) == IF us = <<>> THEN <<>> ELSE Head(us).rows \o RowsOf(Tail(us))
RECURSIVE CountOf(_)
CountOf(us) == IF us = <<>> THEN 0 ELSE Head(us).row_count + CountOf(Tail(us))
Ceil(r, n) == (r + n - 1) \div n

\* C10: streaming over R rows with fetch size N, iterated to its end, yields the
\* rows in order as ceil(R/N) data units, each with at least one and at most N
\* rows and their number as its row count, and then one complete unit whose total
\* is R and the sum of the row counts; 250 rows by 100 come as 100, 100, 50 and
\* a complete unit of 250.
C10_StreamingUnits ==
  /\ \A i \in 1..Len(units) :
       /\ units[i].type = "complete" => i = Len(units) /\ st_pc \in {"finally", "done"}
       /\ units[i].type = "data" =>
            /\ units[i].rows # <<>>
            /\ Len(units[i].rows) <= fetch_size
            /\ units[i].row_count = Len(units[i].rows)
  /\ st_pc = "done" =>
       /\ Len(units) = Ceil(Len(result_rows), fetch_size) + 1
       /\ Len(DataUnits) = Ceil(Len(result_rows), fetch_size)
       /\ RowsOf(DataUnits) = result_rows
       /\ units[Len(units)] = [type |-> "complete", total_rows |-> Len(result_rows)]
       /\ units[Len(units)].total_rows = CountOf(DataUnits)
       /\ (Len(result_rows) = 250 /\ fetch_size = 100)
            => [i \in 1..3 |-> units[i].row_count] = <<100, 100, 50>>

\* C10 witness: 250 rows by 100 were streamed to the end in three data units
C10_Witness ==
  /\ st_pc = "done" /\ Len(result_rows) = 250 /\ fetch_size = 100
  /\ Len(DataUnits) = 3 /\ units[4].type = "complete"

(***************************************************************************)
(* QueryValidator.validate_query and QueryExecutor.execute_query           *)
(* (query_executor.py 46-113, 402-460)                                     *)
(***************************************************************************)
\* what db_info.select_parser comes to: the code 0 with the table and the
\* transformed statement, another code, or an exception
Accepted == [kind |-> "return", ret_val |-> 0, table_name |-> "t",
             validated_sql |-> "SELECT sum(x), count(x) FROM t"]
Rejected == [kind |-> "return", ret_val |-> 1, table_name |-> "", validated_sql |-> ""]
ParserRaises == [kind |-> "raise", ret_val |-> 0, table_name |-> "", validated_sql |-> ""]
ParserOutcomes == {Accepted, Rejected, ParserRaises}
ParserError == "select_parser failed"
\* status.get_select_parsed(): the column metadata of the statement
select_parsed == [title_list |-> <<"x">>, data_types |-> <<"int">>]

\* a validate_query without its except clause
validate_query_NoExcept(outcome, saved) ==
  IF outcome.kind = "raise" THEN Raise(ParserError)
  ELSE IF outcome.ret_val # 0
  THEN Return([validated |-> FALSE,
               error |-> IF saved # "" THEN <<saved>>
                         ELSE <<"Query validation failed with code ", outcome.ret_val>>])
  ELSE Return([validated |-> TRUE, table_name |-> outcome.table_name,
               validated_sql |-> outcome.validated_sql, select_parsed |-> select_parsed])

\* lines 46-113: validate_query.  outcome is what select_parser comes to, saved
\* what status.get_saved_error() returns.
validate_query(outcome, saved) ==
  IF outcome.kind = "raise"
  THEN Return([validated |-> FALSE, error |-> <<ParserError>>])
  ELSE IF outcome.ret_val # 0
  THEN Return([validated |-> FALSE,
               error |-> IF saved # "" THEN <<saved>>
                         ELSE <<"Query validation failed with code ", outcome.ret_val>>])
  ELSE Return([validated |-> TRUE, table_name |-> outcome.table_name,
               validated_sql |-> outcome.validated_sql, select_parsed |-> select_parsed])

NoValidation == [kind |-> "none", value |-> [validated |-> FALSE]]
Modes == {"auto", "streaming", "batch"}
\* SELECT * FROM t, and SELECT * FROM t LIMIT 10
PlainQuery == <<83, 69, 76, 69, 67, 84, 32, 42, 32, 70, 82, 79, 77, 32, 116>>
LimitQuery == PlainQuery \o <<32, 76, 73, 77, 73, 84, 32, 49, 48>>

\* execute_query is called on a statement; no executor runs yet
InitExecute ==
  /\ qx_pc = "start"
  /\ validation_result = NoValidation
  /\ query_error = <<>>
  /\ sql_query \in {PlainQuery, LimitQuery}
  /\ mode = "none"
  /\ st_pc = "idle"
  /\ bt_pc = "idle"
  /\ \E case \in {<<0, 1>>, <<2, 1>>, <<2, 2>>} :
       /\ result_rows = [i \in 1..case[1] |-> i]
       /\ fetch_size = case[2]
  /\ cursor = [state |-> "new", fetched |-> 0, closed |-> 0]
  /\ get_next = FALSE
  /\ rows_data = NoData
  /\ total_rows = 0
  /\ units = <<>>
  /\ exec_error = "none"
  /\ all_rows = <<>>
  /\ batch_result = NoResult

\* no execute_query call
IdleQuery ==
  /\ qx_pc = "idle"
  /\ validation_result = NoValidation
  /\ query_error = <<>>

\* line 433: validation_result = self.validator.validate_query(dbms_name, sql_query)
ValidateQuery(outcome, saved) ==
  /\ qx_pc = "start"
  /\ validation_result' = validate_query(outcome, saved)
  /\ qx_pc' = "validated"
  /\ UNCHANGED query_error
  /\ UNCHANGED <<modeVars, streamVars>>
  /\ UNCHANGED offQuery

\* an execute_query that goes on whatever the validation said
ExecuteQuery_Unchecked(requested) ==
  /\ qx_pc = "validated"
  /\ LET selected == IF requested = "auto" THEN select_mode(sql_query) ELSE requested IN
       /\ mode' = selected
       /\ qx_pc' = "executing"
       /\ st_pc' = IF selected = "streaming" THEN "start" ELSE st_pc
       /\ bt_pc' = IF selected = "streaming" THEN bt_pc ELSE "start"
       /\ UNCHANGED query_error
  /\ UNCHANGED <<validation_result, sql_query, result_rows, cursor, fetch_size, get_next,
                 rows_data, total_rows, units, exec_error, all_rows, batch_result>>
  /\ UNCHANGED offQuery

\* lines 435-460: a statement that is not validated raises; otherwise the mode
\* is selected and the statement handed to the streaming or the batch executor
ExecuteQuery(requested) ==
  /\ qx_pc = "validated"
  /\ IF validation_result.kind = "raise"
     THEN /\ qx_pc' = "raised"
          /\ query_error' = <<validation_result.value>>
          /\ UNCHANGED <<mode, st_pc, bt_pc>>
     ELSE IF ~validation_result.value.validated
     THEN /\ qx_pc' = "raised"
          /\ query_error' = <<"Query validation failed: ">> \o validation_result.value.error
          /\ UNCHANGED <<mode, st_pc, bt_pc>>
     ELSE LET selected == IF requested = "auto" THEN select_mode(sql_query) ELSE requested IN
            /\ mode' = selected
            /\ qx_pc' = "executing"
            /\ st_pc' = IF selected = "streaming" THEN "start" ELSE st_pc
            /\ bt_pc' = IF selected = "streaming" THEN bt_pc ELSE "start"
            /\ UNCHANGED query_error
  /\ UNCHANGED <<validation_result, sql_query, result_rows, cursor, fetch_size, get_next,
                 rows_data, total_rows, units, exec_error, all_rows, batch_result>>
  /\ UNCHANGED offQuery

\* execute_query, and the executor it hands the statement to
NextQuery ==
  \/ \E outcome \in ParserOutcomes, saved \in SavedErrors : ValidateQuery(outcome, saved)
  \/ \E requested \in Modes : ExecuteQuery(requested)
  \/ NextStream

\* C19: execute_query performs no cursor operation (set_cursor, process_sql_stmt,
\* a fetch, close_cursor) and starts no executor unless validate_query has
\* accepted the statement before; a statement that is rejected ends in the
\* validation error, with the cursor untouched and no rows returned or yielded
C19_ValidationBeforeCursor ==
  /\ [](cursor # [state |-> "new", fetched |-> 0, closed |-> 0] \/ ExecutorPc # "idle"
          => /\ validation_result.kind = "return"
             /\ validation_result.value.validated)
  /\ [](qx_pc \notin {"start", "idle"} /\ ~validation_result.value.validated
          => /\ qx_pc \in {"validated", "raised"}
             /\ cursor = [state |-> "new", fetched |-> 0, closed |-> 0]
             /\ units = <<>> /\ all_rows = <<>> /\ batch_result = NoResult)
  /\ [](qx_pc = "raised"
          => /\ ~validation_result.value.validated
             /\ query_error = <<"Query validation failed: ">> \o validation_result.value.error)
  /\ [][cursor' # cursor \/ ExecutorPc' # ExecutorPc
          => qx_pc = "executing" \/ qx_pc' = "executing"]_vars

\* C19 witness: a rejected statement ended in the validation error
C19_Witness ==
  /\ qx_pc = "raised" /\ validation_result.value = [validated |-> FALSE, error |-> <<"dbms not connected">>]
  /\ query_error = <<"Query validation failed: ", "dbms not connected">>
  /\ cursor.state = "new" /\ ExecutorPc = "idle"

\* C20: validate_query never raises.  A statement select_parser rejects, and an
\* exception during the validation, give a result that is not validated and
\* holds an error message and nothing else; a statement select_parser accepts
\* gives a validated result with the table name, the transformed statement and
\* the column metadata
C20_ValidateNeverRaises ==
  [][\A outcome \in ParserOutcomes, saved \in SavedErrors :
       ValidateQuery(outcome, saved) =>
         LET v == validation_result'.value IN
           /\ validation_result'.kind = "return"
           /\ outcome # Accepted
                => /\ DOMAIN v = {"validated", "error"}
                   /\ ~v.validated
                   /\ v.error # <<>>
           /\ outcome = Accepted
                => /\ DOMAIN v = {"validated", "table_name", "validated_sql", "select_parsed"}
                   /\ v.validated
                   /\ v.table_name = outcome.table_name
                   /\ v.validated_sql = outcome.validated_sql
                   /\ v.select_parsed = select_parsed]_vars

\* C20 witness: select_parser raised and the result holds its message only
C20_Witness ==
  /\ qx_pc = "validated"
  /\ validation_result = Return([validated |-> FALSE, error |-> <<ParserError>>])

(***************************************************************************)
(* The registry lock: every `with self.connection_lock` block of           *)
(* SSETransport in three steps (the lock is taken, the body runs, the lock *)
(* is released), one thread for each operation of the transport            *)
(***************************************************************************)
NoThread == <<"none", 0>>
SessionThread(s) == <<"session", s>>
RequestThread == <<"request", 0>>
KeepaliveThread == <<"keepalive", 0>>
SendThread == <<"send_event", 0>>
ActiveThread == <<"get_active_connections", 0>>
CloseThread == <<"close_connection", 0>>
ShutdownThread == <<"shutdown", 0>>
Threads == {SessionThread(s) : s \in Tokens}
             \cup {RequestThread, KeepaliveThread, SendThread, ActiveThread,
                   CloseThread, ShutdownThread}

\* where a thread is: in no block (idle, drain, process, iter, ping, write,
\* stopped, done) or in a block, about to take the lock (acquire), in its body
\* (held) or about to release the lock (release)
At(block, phase) == [block |-> block, phase |-> phase]
Outside(phase) == At("none", phase)
IdleThread == [at |-> Outside("idle"), token |-> NoToken, found |-> FALSE, sessions |-> <<>>]

InitLock ==
  /\ connection_lock = NoThread
  /\ th = [t \in Threads |-> IdleThread]

\* __enter__ of the with statement that ignores the lock's state
Acquire_NoWait(t) ==
  /\ th[t].at.phase = "acquire"
  /\ connection_lock' = t
  /\ th' = [th EXCEPT ![t].at.phase = "held"]
  /\ UNCHANGED offLock
  /\ UNCHANGED lockQuiet
  /\ UNCHANGED <<calls, running, connections, connected, last_activity, wfile, wfile_ok>>

\* `with self.connection_lock:` __enter__: blocks until the lock is free and takes it
Acquire(t) ==
  /\ th[t].at.phase = "acquire"
  /\ connection_lock = NoThread
  /\ connection_lock' = t
  /\ th' = [th EXCEPT ![t].at.phase = "held"]
  /\ UNCHANGED offLock
  /\ UNCHANGED lockQuiet
  /\ UNCHANGED <<calls, running, connections, connected, last_activity, wfile, wfile_ok>>

\* where the thread goes on after the block it is in
AfterBlock(t) ==
  LET block == th[t].at.block IN
  IF block = "insert" THEN [th[t] EXCEPT !.at = Outside("drain")]
  ELSE IF block = "lookup"
       THEN [th[t] EXCEPT !.at = Outside(IF th[t].found THEN "process" ELSE "done")]
  ELSE IF block = "find"
       THEN [th[t] EXCEPT !.at = Outside(IF th[t].found THEN "write" ELSE "done")]
  ELSE IF block = "snapshot" THEN [th[t] EXCEPT !.at = Outside("iter")]
  ELSE IF block \in {"evict", "failed"}
       THEN [th[t] EXCEPT !.at = Outside("iter"), !.sessions = Tail(@)]
  ELSE [th[t] EXCEPT !.at = Outside("done")]

\* __exit__ of the with statement: the lock is released, whatever the body did
Release(t) ==
  /\ th[t].at.phase = "release"
  /\ connection_lock' = NoThread
  /\ th' = [th EXCEPT ![t] = AfterBlock(t)]
  /\ UNCHANGED offLock
  /\ UNCHANGED lockQuiet
  /\ UNCHANGED <<calls, running, connections, connected, last_activity, wfile, wfile_ok>>

\* handle_sse_endpoint lines 212-229: the SSEConnection is made, then the block of line 229
StartSession(s) ==
  /\ calls < MaxCalls
  /\ calls' = calls + 1
  /\ th[SessionThread(s)].at = Outside("idle")
  /\ \A q \in Tokens : q < s => th[SessionThread(q)].at # Outside("idle")
  /\ connected' = [connected EXCEPT ![s] = TRUE]
  /\ th' = [th EXCEPT ![SessionThread(s)] = [@ EXCEPT !.at = At("insert", "acquire"), !.token = s]]
  /\ UNCHANGED offLock
  /\ UNCHANGED lockQuiet
  /\ UNCHANGED <<running, connections, last_activity, wfile, wfile_ok, connection_lock>>

\* line 230: self.connections[session_id] = connection
Insert(s) ==
  /\ th[SessionThread(s)].at = At("insert", "held")
  /\ connections' = Append(connections, s)
  /\ th' = [th EXCEPT ![SessionThread(s)].at.phase = "release"]
  /\ UNCHANGED offLock
  /\ UNCHANGED lockQuiet
  /\ UNCHANGED <<calls, running, connected, last_activity, wfile, wfile_ok, connection_lock>>

\* lines 245-267: the drain loop ends once the liveness flag is cleared
EndDrain(s) ==
  /\ th[SessionThread(s)].at = Outside("drain")
  /\ ~connected[s]
  /\ th' = [th EXCEPT ![SessionThread(s)].at = At("cleanup", "acquire")]
  /\ UNCHANGED offLock
  /\ UNCHANGED lockQuiet
  /\ UNCHANGED <<calls, running, connections, connected, last_activity, wfile, wfile_ok,
                 connection_lock>>

\* lines 268-269, 426-427, 436-437: if session_id in self.connections: del
DeleteBody(t) ==
  /\ th[t].at \in {At("cleanup", "held"), At("evict", "held"), At("failed", "held")}
  /\ connections' = Remove(connections, IF th[t].at.block = "cleanup" THEN th[t].token
                                        ELSE Head(th[t].sessions))
  /\ th' = [th EXCEPT ![t].at.phase = "release"]
  /\ UNCHANGED offLock
  /\ UNCHANGED lockQuiet
  /\ UNCHANGED <<calls, running, connected, last_activity, wfile, wfile_ok, connection_lock>>

\* handle_messages_endpoint up to the block of line 303; SSETransport.send_event
\* and close_connection up to theirs (lines 456, 482)
StartLookup(t, s) ==
  /\ calls < MaxCalls
  /\ calls' = calls + 1
  /\ t \in {RequestThread, SendThread, CloseThread}
  /\ th[t].at = Outside("idle")
  /\ th' = [th EXCEPT ![t] = [@ EXCEPT !.token = s,
                                       !.at = At(IF t = RequestThread THEN "lookup"
                                                 ELSE IF t = SendThread THEN "find"
                                                 ELSE "close", "acquire")]]
  /\ UNCHANGED offLock
  /\ UNCHANGED lockQuiet
  /\ UNCHANGED <<running, connections, connected, last_activity, wfile, wfile_ok,
                 connection_lock>>

\* lines 304, 374, 386, 457: connection = self.connections.get(session_id)
LookupBody(t) ==
  /\ th[t].at \in {At("lookup", "held"), At("deliver", "held"), At("find", "held")}
  /\ th' = [th EXCEPT ![t] = [@ EXCEPT !.found = Registered(th[t].token), !.at.phase = "release"]]
  /\ UNCHANGED offLock
  /\ UNCHANGED lockQuiet
  /\ UNCHANGED <<calls, running, connections, connected, last_activity, wfile, wfile_ok,
                 connection_lock>>

\* _process_message_async lines 368-373: process_message has returned or raised
Process ==
  /\ th[RequestThread].at = Outside("process")
  /\ th' = [th EXCEPT ![RequestThread].at = At("deliver", "acquire")]
  /\ UNCHANGED offLock
  /\ UNCHANGED lockQuiet
  /\ UNCHANGED <<calls, running, connections, connected, last_activity, wfile, wfile_ok,
                 connection_lock>>

\* SSETransport.send_event line 460: connection.send_event(event_type, data)
DirectWrite ==
  /\ th[SendThread].at = Outside("write")
  /\ SendEvent(th[SendThread].token, "message", 0, 0, "direct")
  /\ th' = [th EXCEPT ![SendThread].at = Outside("done")]
  /\ UNCHANGED offLock
  /\ UNCHANGED lockQuiet
  /\ UNCHANGED <<calls, running, connections, wfile_ok, connection_lock>>

\* close_connection lines 483-486: the lookup, connection.close() and the del
CloseBody ==
  /\ th[CloseThread].at = At("close", "held")
  /\ LET s == th[CloseThread].token IN
       IF Registered(s)
       THEN /\ connected' = [connected EXCEPT ![s] = FALSE]
            /\ connections' = Remove(connections, s)
       ELSE UNCHANGED <<connected, connections>>
  /\ th' = [th EXCEPT ![CloseThread].at.phase = "release"]
  /\ UNCHANGED offLock
  /\ UNCHANGED lockQuiet
  /\ UNCHANGED <<calls, running, last_activity, wfile, wfile_ok, connection_lock>>

\* get_active_connections up to its block (line 472)
StartActive ==
  /\ calls < MaxCalls
  /\ calls' = calls + 1
  /\ th[ActiveThread].at = Outside("idle")
  /\ th' = [th EXCEPT ![ActiveThread].at = At("keys", "acquire")]
  /\ UNCHANGED offLock
  /\ UNCHANGED lockQuiet
  /\ UNCHANGED <<running, connections, connected, last_activity, wfile, wfile_ok,
                 connection_lock>>

\* lines 417, 473: list(self.connections.items()), list(self.connections.keys())
SnapshotBody(t) ==
  /\ th[t].at \in {At("snapshot", "held"), At("keys", "held")}
  /\ th' = [th EXCEPT ![t] = [@ EXCEPT !.sessions = connections, !.at.phase = "release"]]
  /\ UNCHANGED offLock
  /\ UNCHANGED lockQuiet
  /\ UNCHANGED <<calls, running, connections, connected, last_activity, wfile, wfile_ok,
                 connection_lock>>

\* shutdown lines 493-499: self.running = False, then the block
StartShutdown ==
  /\ calls < MaxCalls
  /\ calls' = calls + 1
  /\ th[ShutdownThread].at = Outside("idle")
  /\ running' = FALSE
  /\ th' = [th EXCEPT ![ShutdownThread].at = At("clear", "acquire")]
  /\ UNCHANGED offLock
  /\ UNCHANGED lockQuiet
  /\ UNCHANGED <<connections, connected, last_activity, wfile, wfile_ok, connection_lock>>

\* shutdown lines 500-502: every connection closed, self.connections.clear()
ClearBody ==
  /\ th[ShutdownThread].at = At("clear", "held")
  /\ connected' = [s \in Tokens |-> IF Registered(s) THEN FALSE ELSE connected[s]]
  /\ connections' = <<>>
  /\ th' = [th EXCEPT ![ShutdownThread].at.phase = "release"]
  /\ UNCHANGED offLock
  /\ UNCHANGED lockQuiet
  /\ UNCHANGED <<calls, running, last_activity, wfile, wfile_ok, connection_lock>>

\* _keepalive_loop lines 409-415: the test of running and the sleep, up to the block
StartRound ==
  /\ calls < MaxCalls
  /\ calls' = calls + 1
  /\ th[KeepaliveThread].at = Outside("idle")
  /\ th' = [th EXCEPT ![KeepaliveThread].at =
                        IF running THEN At("snapshot", "acquire") ELSE Outside("stopped")]
  /\ UNCHANGED offLock
  /\ UNCHANGED lockQuiet
  /\ UNCHANGED <<running, connections, connected, last_activity, wfile, wfile_ok,
                 connection_lock>>

\* lines 419-430: the next entry of the copy; whether it is stale is the clock's
\* business, which is not in this specification
SweepNext(stale) ==
  /\ th[KeepaliveThread].at = Outside("iter")
  /\ IF th[KeepaliveThread].sessions = <<>>
     THEN /\ th' = [th EXCEPT ![KeepaliveThread].at = Outside("idle")]
          /\ UNCHANGED connected
     ELSE LET s == Head(th[KeepaliveThread].sessions) IN
          IF stale
          THEN /\ connected' = [connected EXCEPT ![s] = FALSE]
               /\ th' = [th EXCEPT ![KeepaliveThread].at = At("evict", "acquire")]
          ELSE /\ th' = [th EXCEPT ![KeepaliveThread] =
                           IF connected[s] THEN [@ EXCEPT !.at = Outside("ping")]
                                           ELSE [@ EXCEPT !.sessions = Tail(@)]]
               /\ UNCHANGED connected
  /\ UNCHANGED offLock
  /\ UNCHANGED lockQuiet
  /\ UNCHANGED <<calls, running, connections, last_activity, wfile, wfile_ok, connection_lock>>

\* lines 432-435: connection.send_keepalive(), and the block that follows a failure
SweepPing ==
  /\ th[KeepaliveThread].at = Outside("ping")
  /\ LET s == Head(th[KeepaliveThread].sessions) IN
       IF wfile_ok[s]
       THEN /\ wfile' = [wfile EXCEPT ![s] = Append(@, Keepalive("keepalive"))]
            /\ last_activity' = [last_activity EXCEPT ![s] = now]
            /\ th' = [th EXCEPT ![KeepaliveThread] =
                        [@ EXCEPT !.at = Outside("iter"), !.sessions = Tail(@)]]
            /\ UNCHANGED connected
       ELSE /\ connected' = [connected EXCEPT ![s] = FALSE]
            /\ th' = [th EXCEPT ![KeepaliveThread].at = At("failed", "acquire")]
            /\ UNCHANGED <<wfile, last_activity>>
  /\ UNCHANGED offLock
  /\ UNCHANGED lockQuiet
  /\ UNCHANGED <<calls, running, connections, wfile_ok, connection_lock>>

\* the client of a session goes away: writes on its channel fail from now on
ClientGone(s) ==
  /\ calls < MaxCalls
  /\ calls' = calls + 1
  /\ th[SessionThread(s)].at # Outside("idle")
  /\ wfile_ok[s]
  /\ wfile_ok' = [wfile_ok EXCEPT ![s] = FALSE]
  /\ UNCHANGED offLock
  /\ UNCHANGED lockQuiet
  /\ UNCHANGED <<running, connections, connected, last_activity, wfile, lockVars>>

NextLock ==
  \/ \E t \in Threads : Acquire(t)
  \/ \E t \in Threads : Release(t)
  \/ \E s \in Tokens : StartSession(s)
  \/ \E s \in Tokens : Insert(s)
  \/ \E s \in Tokens : EndDrain(s)
  \/ \E t \in Threads : DeleteBody(t)
  \/ \E t \in Threads, s \in Tokens : StartLookup(t, s)
  \/ \E t \in Threads : LookupBody(t)
  \/ Process
  \/ DirectWrite
  \/ CloseBody
  \/ StartActive
  \/ \E t \in Threads : SnapshotBody(t)
  \/ StartShutdown
  \/ ClearBody
  \/ StartRound
  \/ \E stale \in BOOLEAN : SweepNext(stale)
  \/ SweepPing
  \/ \E s \in Tokens : ClientGone(s)

\* the thread is inside a block: its body runs or has run, the lock not yet released
InBlock(t) == th[t].at.phase \in {"held", "release"}
Keepalives(s) == SelectSeq(wfile[s], LAMBDA w : w.kind = "keepalive")

\* C28: the registry is read and changed under its lock only: a thread is in the
\* body of a block (the inserts, lookups, deletes and snapshots are nowhere
\* else) exactly while it holds the lock, so the lock is released whenever a
\* thread leaves a block; the registry changes only by a step of the holder; and
\* the sweep writes its keepalives while it does not hold the lock, to the
\* entries of its copy
C28_RegistryUnderLock ==
  [][/\ \A t \in Threads : InBlock(t) <=> connection_lock = t
     /\ \A t \in Threads : InBlock(t)' <=> connection_lock' = t
     /\ connections' # connections
          => \E t \in Threads : /\ connection_lock = t /\ connection_lock' = t
                                /\ th[t].at.phase = "held" /\ th'[t].at.phase = "release"
     /\ \A s \in Tokens :
          Keepalives(s)' # Keepalives(s)
          => /\ connection_lock # KeepaliveThread /\ ~InBlock(KeepaliveThread)
             /\ s = Head(th[KeepaliveThread].sessions)]_vars

\* C28 witness: the sweep has written a keepalive to a session of its copy while
\* another thread is in a block with the lock
C28_Witness ==
  \E s \in Tokens, t \in Threads \ {KeepaliveThread} :
    /\ Keepalives(s) # <<>>
    /\ connection_lock = t /\ InBlock(t)
    /\ th[KeepaliveThread].at = Outside("iter")

(***************************************************************************)
(* execute_streaming and its consumer.  execute_query hands the async      *)
(* generator to the caller (lines 446-453); the body runs only while the   *)
(* caller pulls, and the finally runs when the body is resumed to its end  *)
(* or the generator is closed.                                             *)
(***************************************************************************)
\* the consumer stops pulling: the generator stays suspended at the yield of a
\* data unit (line 230) or of the complete unit (line 250)
StopPulling ==
  /\ st_pc \in {"more", "finally"}
  /\ st_pc' = "suspended"
  /\ UNCHANGED <<result_rows, cursor, fetch_size, get_next, rows_data, total_rows, units,
                 exec_error>>
  /\ UNCHANGED batchVars
  /\ UNCHANGED offStream

\* the suspended generator is closed (aclose by its holder, or by the event
\* loop's finalizer once the object is collected): GeneratorExit is raised at
\* the yield and the finally runs (lines 255-261)
GeneratorExit(ok) ==
  /\ st_pc = "suspended"
  /\ cursor' = [cursor EXCEPT !.state = IF ok THEN "closed" ELSE "close_failed", !.closed = @ + 1]
  /\ st_pc' = "closed"
  /\ UNCHANGED <<result_rows, fetch_size, get_next, rows_data, total_rows, units, exec_error>>
  /\ UNCHANGED batchVars
  /\ UNCHANGED offStream

\* the steps of the generator's body, which run when the consumer pulls
NextGenerator ==
  \/ \E ok \in BOOLEAN : SetCursor(ok)
  \/ \E ok \in BOOLEAN : ProcessSqlStmt(ok)
  \/ \E more \in BOOLEAN, blank \in BOOLEAN : Fetch(more, blank)
  \/ FetchRaises
  \/ \E more \in BOOLEAN : FetchUnparsable(more)
  \/ YieldBatch
  \/ CheckNext
  \/ YieldComplete
  \/ \E ok \in BOOLEAN : CloseCursor(ok)

NextPull ==
  \/ NextGenerator
  \/ StopPulling
  \/ \E ok \in BOOLEAN : GeneratorExit(ok)

\* C34: every cursor a streaming execution has opened is eventually closed,
\* also when the consumer stops pulling before the complete unit
C34_CursorEventuallyClosed ==
  (st_pc # "idle" /\ cursor.state \in {"set", "executing"}) ~> (cursor.closed = 1)

(***************************************************************************)
(* The liveness sweep on sessions whose clients send nothing: time passes  *)
(* while the keepalive thread sleeps (sse_handler.py line 411), and a      *)
(* round of the sweep is short beside connection_timeout.                  *)
(***************************************************************************)
\* line 411: time.sleep(self.keepalive_interval)
Sleep ==
  /\ ka.pc = "sleep"
  /\ now < ka.start + keepalive_interval
  /\ ka.start + keepalive_interval <= MaxRounds * keepalive_interval
  /\ now' = ka.start + keepalive_interval
  /\ UNCHANGED offSse
  /\ UNCHANGED <<calls, running, connections, connected, message_counter, message_queue,
                 last_activity, wfile, wfile_ok, sse, rq, ka, snd, enqueued, evicted>>

\* the sessions, their clients going away, and the sweep
NextKeepalive ==
  \/ OpenSession
  \/ KALoopTest
  \/ Sleep
  \/ KASnapshot
  \/ KAIter
  \/ KAPing
  \/ KADelete
  \/ \E s \in Tokens : ClientDisconnect(s)

ToolCall(r, command, timeout, returns) ==
  /\ r \in BridgeCalls
  /\ rq[r].pc = "processing"
  /\ ex[r].pc = "idle"
  /\ ~executor_shutdown
  /\ loop_time + timeout <= MaxTime
  /\ ex' = [ex EXCEPT ![r] = [@ EXCEPT !.pc = "waiting", !.command = command,
                                       !.timeout = timeout, !.start = loop_time,
                                       !.returns = returns, !.work = "queued"]]
  /\ work_queue' = Append(work_queue, r)
  /\ UNCHANGED loop_time
  /\ UNCHANGED <<executor_shutdown, close_returned>>
  /\ UNCHANGED offBridge

\* mcp_server.py lines 237-255: asyncio.run returns once the caller of
\* execute_command has its result or its error (TimeoutError included), and
\* process_message returns the response; sse_handler.py lines 368-376 then look
\* the session up.  A request whose method calls no tool makes no bridge call.
ToolReturn(r, outcome) ==
  /\ r \in BridgeCalls
  /\ ex[r].pc \in {"idle", "returned", "raised", "timed_out"}
  /\ ProcessLookup(r, outcome)

\* one request on the first session, with its bridge call, beside the sessions'
\* opening and closing
NextTool ==
  \/ OpenSession
  \/ \E s \in Tokens : SendConnected(s)
  \/ HandleMessages(1, 1, "object")
  \/ \E command \in Commands, returns \in BOOLEAN : ToolCall(1, command, MaxTimeout, returns)
  \/ WorkerTake
  \/ \E outcome \in {"result", "exception"} : SyncExecuteDone(1, outcome)
  \/ Resume(1)
  \/ ExecTimeout(1)
  \/ LoopTick
  \/ ToolReturn(1, "result")
  \/ QMCheck(1)
  \/ QMStore(1)
  \/ QMBuild(1)
  \/ QMPut(1)
  \/ \E s \in Tokens : CloseConnection(s)

\* the blocking call of request r returns after its caller timed out and the
\* response carrying the timeout error has been put on the session's queue
StaleFinish(r) ==
  /\ r \in BridgeCalls
  /\ ex[r].pc = "timed_out" /\ ex[r].work = "running" /\ ex'[r].work = "finished"
  /\ rq[r].pc = "done" /\ EnvelopesFor(r) # {}

\* C35: after a bridge call has timed out and the timeout error of its request
\* has been returned to the client, the blocking call, when it finishes on an
\* open session, adds an envelope (a stale success) to that session's queue
C35_StaleSuccessEnqueued ==
  [][\A r \in Requests :
       (StaleFinish(r) /\ connected[rq[r].token])
       => Len(enqueued'[rq[r].token]) = Len(enqueued[rq[r].token]) + 1]_vars

\* C35 as the code has it: the result of a blocking call that finishes after
\* its caller timed out is dropped: the finish changes no outbound queue, and
\* the request keeps the one envelope its thread enqueued
C35_StaleResultDropped ==
  /\ [][\A r \in Requests :
          StaleFinish(r)
          => /\ enqueued' = enqueued /\ message_queue' = message_queue
             /\ EnvelopesFor(r)' = EnvelopesFor(r)]_vars
  /\ [](\A r \in Requests :
          (r \in BridgeCalls /\ ex[r].pc = "timed_out") => Cardinality(EnvelopesFor(r)) <= 1)

\* C35 witness: the call of a request timed out, the request's one envelope is
\* on its session's queue, and the blocking call has finished since
C35_Witness ==
  \E r \in Requests :
    /\ r \in BridgeCalls
    /\ ex[r].pc = "timed_out" /\ ex[r].work = "finished" /\ ex[r].outcome = "result"
    /\ rq[r].pc = "done" /\ Cardinality(EnvelopesFor(r)) = 1
    /\ connected[rq[r].token]
    /\ Len(enqueued[rq[r].token]) = 1

(***************************************************************************)
(* The cursor protocol of the two executors: execute_streaming and         *)
(* execute_batch (query_executor.py 175-262, 317-384) run over the same    *)
(* fetch outcomes.  What process_fetch_rows comes to is an input: its      *)
(* get_next, and text that is a batch of rows, a batch of no rows, blank,  *)
(* or not JSON, or an exception.                                           *)
(***************************************************************************)
OutcomeKinds == {"rows", "empty", "blank", "garbage", "raises"}
OutcomeShapes == [get_next : BOOLEAN, kind : OutcomeKinds \ {"raises"}]
                   \cup {[get_next |-> FALSE, kind |-> "raises"]}
\* the rows of the i-th fetch, when it holds rows
RowsAt(outcomes, i) == IF outcomes[i].kind = "rows" THEN <<i>> ELSE <<>>
FetchScripts == UNION {[1..n -> OutcomeShapes] : n \in 1..MaxFetches}
NoRun == [pc |-> "idle", cursor_calls |-> <<>>, fetches |-> 0, rows |-> <<>>, total_rows |-> 0]
\* lines 180-199, 321-339: set_cursor and process_sql_stmt have returned 0
StartedRun == [NoRun EXCEPT !.pc = "fetch", !.cursor_calls = <<"set_cursor", "process_sql_stmt">>]

InitProtocol ==
  /\ fetch_outcomes \in FetchScripts
  /\ sx = StartedRun
  /\ bx = StartedRun

IdleProtocol ==
  /\ fetch_outcomes = <<>>
  /\ sx = NoRun
  /\ bx = NoRun

\* execute_streaming lines 203-246 on one fetch outcome: the run after it
StreamOn(run, o, rows) ==
  LET called == [run EXCEPT !.fetches = @ + 1,
                            !.cursor_calls = Append(@, "process_fetch_rows")]
  IN IF o.kind = "raises" THEN [called EXCEPT !.pc = "failed"]
     ELSE IF o.kind = "blank" THEN [called EXCEPT !.pc = "complete"]          \* line 213
     ELSE IF o.kind = "garbage" THEN [called EXCEPT !.pc = "failed"]          \* line 238
     ELSE IF rows = <<>> THEN [called EXCEPT !.pc = "complete"]               \* line 222
     ELSE [called EXCEPT !.rows = @ \o rows, !.total_rows = @ + Len(rows),    \* lines 226-236
                         !.pc = IF o.get_next THEN "fetch" ELSE "complete"]   \* line 244

\* execute_batch lines 342-366 on one fetch outcome: the run after it
BatchOn(run, o, rows) ==
  LET called == [run EXCEPT !.fetches = @ + 1,
                            !.cursor_calls = Append(@, "process_fetch_rows")]
  IN IF o.kind = "raises" THEN [called EXCEPT !.pc = "failed"]
     ELSE IF o.kind = "blank" THEN [called EXCEPT !.pc = "complete"]          \* line 351
     ELSE IF o.kind = "garbage" THEN [called EXCEPT !.pc = "failed"]          \* line 362
     ELSE [called EXCEPT !.rows = @ \o rows,                                  \* lines 358-359
                         !.pc = IF o.get_next THEN "fetch" ELSE "complete"]   \* line 365

\* the next fetch of execute_streaming
StreamFetch ==
  /\ sx.pc = "fetch"
  /\ sx.fetches < Len(fetch_outcomes)
  /\ sx' = StreamOn(sx, fetch_outcomes[sx.fetches + 1], RowsAt(fetch_outcomes, sx.fetches + 1))
  /\ UNCHANGED <<fetch_outcomes, bx>>
  /\ UNCHANGED offProtocol

\* the next fetch of execute_batch
BatchFetchNext ==
  /\ bx.pc = "fetch"
  /\ bx.fetches < Len(fetch_outcomes)
  /\ bx' = BatchOn(bx, fetch_outcomes[bx.fetches + 1], RowsAt(fetch_outcomes, bx.fetches + 1))
  /\ UNCHANGED <<fetch_outcomes, sx>>
  /\ UNCHANGED offProtocol

\* the way out of either executor: the complete unit or the return, then the
\* finally with close_cursor (lines 250-261, 368-384)
\* total is the total_rows a run that ends normally reports
Finish(run, total) ==
  [run EXCEPT !.cursor_calls = Append(@, "close_cursor"),
              !.total_rows = IF run.pc = "complete" THEN total ELSE @,
              !.pc = IF run.pc = "complete" THEN "done" ELSE "raised"]

StreamFinish ==
  /\ sx.pc \in {"complete", "failed"}
  /\ sx' = Finish(sx, sx.total_rows)
  /\ UNCHANGED <<fetch_outcomes, bx>>
  /\ UNCHANGED offProtocol

BatchFinish ==
  /\ bx.pc \in {"complete", "failed"}
  /\ bx' = Finish(bx, Len(bx.rows))
  /\ UNCHANGED <<fetch_outcomes, sx>>
  /\ UNCHANGED offProtocol

NextProtocol ==
  \/ StreamFetch
  \/ BatchFetchNext
  \/ StreamFinish
  \/ BatchFinish

\* the fetch said that no rows are left, or held nothing
Terminal(o) == ~o.get_next \/ o.kind \in {"blank", "empty"}

\* C33: in both modes no fetch is issued after a fetch that signalled no more
\* rows or returned empty content (blank text or a batch of no rows): every
\* fetch but the last one issued held rows and said there are more
C33_NoFetchAfterTerminal ==
  /\ \A i \in 1..(sx.fetches - 1) : ~Terminal(fetch_outcomes[i])
  /\ \A i \in 1..(bx.fetches - 1) : ~Terminal(fetch_outcomes[i])

\* C32: for the same fetch outcomes execute_batch issues the cursor calls
\* execute_streaming issues, ends as it ends, and returns the rows of its data
\* units, one after the other, and its total
C32_BatchAsStreaming ==
  (sx.pc \in {"done", "raised"} /\ bx.pc \in {"done", "raised"})
  => /\ bx.cursor_calls = sx.cursor_calls
     /\ bx.pc = sx.pc
     /\ bx.pc = "done" => bx.rows = sx.rows /\ bx.total_rows = sx.total_rows

\* requests, delivery and the API calls; the clock stands still
NextSSE ==
  \/ OpenSession
  \/ \E s \in Tokens : SendConnected(s)
  \/ \E s \in Tokens : LoopTest(s)
  \/ \E s \in Tokens : QueueGet(s)
  \/ \E s \in Tokens : DrainSend(s)
  \/ \E s \in Tokens : Cleanup(s)
  \/ \E r \in Requests, path \in PathTokens, body \in Bodies : HandleMessages(r, path, body)
  \/ \E r \in Requests, outcome \in Outcomes : ProcessLookup(r, outcome)
  \/ \E r \in Requests : QMCheck(r)
  \/ \E r \in Requests : QMStore(r)
  \/ \E r \in Requests : QMBuild(r)
  \/ \E r \in Requests : QMPut(r)
  \/ \E t \in Tokens : SELookup(t)
  \/ SECheck
  \/ SEStore
  \/ SERead
  \/ SEWrite
  \/ \E s \in Tokens : CloseConnection(s)
  \/ \E s \in Tokens : ClientDisconnect(s)

\* the liveness sweep beside the sessions, one request, the clock and shutdown
NextSweep ==
  \/ OpenSession
  \/ \E s \in Tokens : SendConnected(s)
  \/ \E s \in Tokens : LoopTest(s)
  \/ \E s \in Tokens : QueueGet(s)
  \/ \E s \in Tokens : DrainSend(s)
  \/ \E s \in Tokens : Cleanup(s)
  \/ \E r \in 1..SweepRequests, path \in Tokens : HandleMessages(r, path, "object")
  \/ \E r \in Requests : ProcessLookup(r, "result")
  \/ \E r \in Requests : QMCheck(r)
  \/ \E r \in Requests : QMStore(r)
  \/ \E r \in Requests : QMBuild(r)
  \/ \E r \in Requests : QMPut(r)
  \/ KALoopTest
  \/ KASnapshot
  \/ KAIter
  \/ KAPing
  \/ KADelete
  \/ \E s \in Tokens : CloseConnection(s)
  \/ Shutdown
  \/ \E dt \in TickSteps : Tick(dt)
  \/ \E s \in Tokens : ClientDisconnect(s)

\* the sessions and the first request beside the liveness sweep,
\* close_connection, shutdown, the clock and the clients leaving
NextDrain ==
  \/ OpenSession
  \/ \E s \in Tokens : SendConnected(s)
  \/ \E s \in Tokens : LoopTest(s)
  \/ \E s \in Tokens : QueueGet(s)
  \/ \E s \in Tokens : DrainSend(s)
  \/ \E s \in Tokens : Cleanup(s)
  \/ HandleMessages(1, 1, "object")
  \/ ProcessLookup(1, "result")
  \/ QMCheck(1)
  \/ QMStore(1)
  \/ QMBuild(1)
  \/ QMPut(1)
  \/ KALoopTest
  \/ KASnapshot
  \/ KAIter
  \/ KAPing
  \/ KADelete
  \/ \E s \in Tokens : CloseConnection(s)
  \/ Shutdown
  \/ \E dt \in TickSteps : Tick(dt)
  \/ \E s \in Tokens : ClientDisconnect(s)

\* each specification starts the other subsystems in their initial state and
\* leaves them there
Init == InitSSE /\ InitBridge /\ InitSync /\ IdleMode /\ IdleStream /\ IdleRouter /\ IdleQuery /\ InitLock /\ IdleProtocol
Next == NextSSE
Spec == Init /\ [][Next]_vars
SpecSweep == Init /\ [][NextSweep]_vars
\* the event loop is never blocked: its clock advances and it runs a due timer
\* the session threads scheduled beside everything that clears a liveness
\* flag: a thread that can take its next step takes it (the queue's get
\* returns within its timeout of 1 s)
SpecDrain ==
  /\ Init
  /\ [][NextDrain]_vars
  /\ \A s \in Tokens : WF_vars(SendConnected(s) \/ LoopTest(s) \/ QueueGet(s)
                                  \/ DrainSend(s) \/ Cleanup(s))
SpecBridge ==
  /\ Init
  /\ [][NextBridge]_vars
  /\ WF_vars(LoopTick)
  /\ \A c \in BridgeCalls : WF_vars(ExecTimeout(c))
\* a free thread of the pool takes the next work item, a blocking call that
\* returns does return, and the join ends when the threads have ended
SpecClose ==
  /\ Init
  /\ [][NextClose]_vars
  /\ WF_vars(WorkerTake)
  /\ \A c \in BridgeCalls : WF_vars(\E outcome \in {"result", "exception"} : SyncExecuteDone(c, outcome))
  /\ WF_vars(CloseReturn)
SpecLock == Init /\ [][NextLock]_vars
SpecSync == Init /\ [][NextSync]_vars
SpecKeepalive == Init /\ [][NextKeepalive]_vars
SpecTool == Init /\ [][NextTool]_vars
\* the two executors over the same fetch outcomes
InitOutcomes ==
  InitSSE /\ InitBridge /\ InitSync /\ IdleMode /\ IdleStream /\ IdleRouter /\ IdleQuery
    /\ InitLock /\ InitProtocol
SpecProtocol == InitOutcomes /\ [][NextProtocol]_vars
\* a query waits for its mode
InitQuery == InitSSE /\ InitBridge /\ InitSync /\ InitMode /\ IdleStream /\ IdleRouter /\ IdleQuery /\ InitLock /\ IdleProtocol
SpecMode == InitQuery /\ [][NextMode]_vars
\* a validated statement is about to be streamed
InitStatement == InitSSE /\ InitBridge /\ InitSync /\ IdleMode /\ InitStream /\ IdleRouter /\ IdleQuery /\ InitLock /\ IdleProtocol
SpecStream == InitStatement /\ [][NextStream]_vars
\* a statement handed to execute_streaming, whose consumer pulls as long as it
\* likes: the body's steps are taken while it pulls; nothing in these sources
\* closes a generator that is left suspended
InitStreaming == InitStatement /\ st_pc = "start"
SpecPull ==
  /\ InitStreaming
  /\ [][NextPull]_vars
  /\ WF_vars(NextGenerator)

\* one execute_query call, from the validation to the end of the executor
InitCall == InitSSE /\ InitBridge /\ InitSync /\ InitExecute /\ IdleRouter /\ InitLock /\ IdleProtocol
SpecQuery == InitCall /\ [][NextQuery]_vars

\* one process_message call, on every message
InitMessage == InitSSE /\ InitBridge /\ InitSync /\ IdleMode /\ IdleStream /\ InitRouter /\ IdleQuery /\ InitLock /\ IdleProtocol
SpecRouter == InitMessage /\ [][NextRouter]_vars
=============================================================================
